---- MODULE Spec2Model ----
(***************************************************************************)
(* Model of the Mr. Undercover bot: the Game engine (src/models/game.py)   *)
(* and the command handlers that drive it (src/handlers/*.py), with the    *)
(* two process-wide registries of src/config.py.                           *)
(*                                                                         *)
(* One action is one handler invocation run to its end (or to the point    *)
(* where it raises).  user ids are positive integers, None is 0.           *)
(***************************************************************************)
EXTENDS Integers, Sequences, FiniteSets, TLC

\* ------------------------------------------------------------------ bounds
MaxPlayers == 4
MaxCount == 2
MaxRound == 2
MaxTurnShuffles == 1
MaxTablePlayers == 8
MaxSuspended == 2
MaxConcurrentRound == 1
MaxConcurrentPlayers == 3
MaxDescribedPlayers == 3
MaxDescribedRound == 2
MaxCandidates == 3

Users == 1..MaxPlayers
Chats == {1}
NoneId == 0

\* ------------------------------------------------------------------ enums
CIVILIAN == "civilian"
UNDERCOVER == "undercover"
MR_WHITE == "mr_white"
NoRole == "none"

WAITING_FOR_PLAYERS == "waiting_for_players"
PLAYING == "playing"
VOTING == "voting"
GAME_OVER == "game_over"
MR_WHITE_GUESSING == "mr_white_guessing"

\* ------------------------------------------------------------------ words
\* A word is a sequence of character codes; NoWord is Python's None.
NoWord == <<>>
WordMe == <<77, 101>>
WordRo == <<82, 111>>
PAIR == [civilian |-> WordMe, undercover |-> WordRo]

LowerChar(ch) == IF ch >= 65 /\ ch <= 90 THEN ch + 32 ELSE ch
Lower(w) == [i \in 1..Len(w) |-> LowerChar(w[i])]

\* str.strip: leading and trailing whitespace removed.
IsSpace(ch) == ch \in {9, 10, 13, 32}
Strip(w) ==
  IF \A i \in DOMAIN w : IsSpace(w[i]) THEN <<>>
  ELSE SubSeq(w, CHOOSE i \in DOMAIN w : ~IsSpace(w[i]) /\ \A j \in 1..(i - 1) : IsSpace(w[j]),
                 CHOOSE i \in DOMAIN w : ~IsSpace(w[i]) /\ \A j \in (i + 1)..Len(w) : IsSpace(w[j]))

\* The texts a private message can carry: the civilian word, the same in
\* another case with a leading blank, the undercover word, and a prefix.
GuessTexts == {<<77, 101>>, <<32, 109, 69>>, <<82, 111>>, <<77>>}

\* The description a /done message can carry ("Hi").
DescriptionText == <<72, 105>>

\* ------------------------------------------------------------------ records

DefaultSettings ==
  [mr_white_start |-> FALSE, tiebreaker |-> "random",
   civilian_count |-> 0, undercover_count |-> 0, mr_white_count |-> 0]

Player ==
  [role |-> NoRole, word |-> NoWord, has_spoken |-> FALSE, has_voted |-> FALSE,
   vote_target |-> NoneId, eliminated |-> FALSE, description |-> NoWord]

\* Game.__init__; the players dict is the function `players` with its
\* insertion order kept in `player_keys`.
Game(creator) ==
  [state |-> WAITING_FOR_PLAYERS,
   creator_id |-> creator,
   players |-> <<>>,
   player_keys |-> <<>>,
   turn_order |-> <<>>,
   current_turn_idx |-> 0,
   civilian_word |-> NoWord,
   undercover_word |-> NoWord,
   round_number |-> 0,
   settings |-> DefaultSettings]

\* A chat with no entry in the games registry.
NoGame == [Game(NoneId) EXCEPT !.state = "absent"]

\* ------------------------------------------------------------------ helpers
Range(s) == {s[i] : i \in DOMAIN s}
Ids(g) == Range(g.player_keys)
Alive(g) == {p \in Ids(g) : ~g.players[p].eliminated}
IndexOf(s, x) == CHOOSE i \in DOMAIN s : s[i] = x /\ \A j \in 1..(i - 1) : s[j] # x
Perms(S) == {s \in [1..Cardinality(S) -> S] : \A x \in S : \E i \in DOMAIN s : s[i] = x}
Swap(s, i, j) == [s EXCEPT ![i] = s[j], ![j] = s[i]]
CountRole(g, r) == Cardinality({p \in Alive(g) : g.players[p].role = r})

\* ------------------------------------------------------------------ engine
\* A local variable of the code: F applied to the value of v, v being
\* evaluated once, as an assignment evaluates its right-hand side once.
Bind(v, F(_)) == CHOOSE r \in {F(x) : x \in {v}} : TRUE

\* Every engine call yields [g: the game afterwards, ret: the returned value,
\* err: TRUE when the call raises (the game is then as at the raise)].
Res(g, ret, err) == [g |-> g, ret |-> ret, err |-> err]

SetPlayer(g, p, field, val) ==
  [g EXCEPT !.players = [@ EXCEPT ![p] = [@ EXCEPT ![field] = val]]]

\* add_player without its membership test: the player is created again.
AddPlayerAgain(g, user_id) ==
  Res([g EXCEPT
         !.players = [p \in Ids(g) \cup {user_id} |->
                        IF p = user_id THEN Player ELSE g.players[p]],
         !.player_keys = IF user_id \in Ids(g) THEN @ ELSE Append(@, user_id)],
      TRUE, FALSE)

\* Game.add_player
AddPlayer(g, user_id) ==
  IF user_id \in Ids(g)
  THEN Res(g, FALSE, FALSE)
  ELSE Res([g EXCEPT
              !.players = [p \in Ids(g) \cup {user_id} |->
                             IF p = user_id THEN Player ELSE g.players[p]],
              !.player_keys = Append(@, user_id)],
           TRUE, FALSE)

\* Game.all_players_spoken and the same loop inlined in next_turn / done_turn
AllPlayersSpoken(g) == \A p \in Alive(g) : g.players[p].has_spoken

\* Game.all_players_voted
AllPlayersVoted(g) == \A p \in Alive(g) : g.players[p].has_voted

\* Game.get_alive_players, in dict order
GetAlivePlayers(g) == SelectSeq(g.player_keys, LAMBDA p : ~g.players[p].eliminated)

\* Game.get_current_player_id.  When the state is Playing and the player at
\* current_turn_idx is eliminated it calls next_turn, whose first statement
\* calls get_current_player_id again on the unchanged game: the mutual
\* recursion never reaches a base case and Python raises RecursionError with
\* the game untouched.
GetCurrentPlayerId(g) ==
  IF g.state # PLAYING \/ Len(g.turn_order) = 0
  THEN [ret |-> NoneId, err |-> FALSE]
  ELSE IF g.players[g.turn_order[g.current_turn_idx + 1]].eliminated
  THEN [ret |-> NoneId, err |-> TRUE]
  ELSE [ret |-> g.turn_order[g.current_turn_idx + 1], err |-> FALSE]

\* The slot (0-based) k steps after original_idx in the turn order.
SlotAfter(g, original_idx, k) == (original_idx + k) % Len(g.turn_order)

\* ScanNext with a fault: the scan stops at the very next slot, whoever holds
\* it.  C2 fails under it.
ScanNextNoSkip(g, original_idx) ==
  IF Len(g.turn_order) > 1 THEN 1 ELSE 0

\* The scan of next_turn: the number of steps (1..n-1) to the first slot after
\* original_idx holding a living player who has not spoken, or 0 when the scan
\* comes back to original_idx without finding one.
ScanNext(g, original_idx) ==
  IF \E k \in 1..(Len(g.turn_order) - 1) :
       /\ ~g.players[g.turn_order[SlotAfter(g, original_idx, k) + 1]].eliminated
       /\ ~g.players[g.turn_order[SlotAfter(g, original_idx, k) + 1]].has_spoken
  THEN CHOOSE k \in 1..(Len(g.turn_order) - 1) :
         /\ ~g.players[g.turn_order[SlotAfter(g, original_idx, k) + 1]].eliminated
         /\ ~g.players[g.turn_order[SlotAfter(g, original_idx, k) + 1]].has_spoken
         /\ \A j \in 1..(k - 1) :
              \/ g.players[g.turn_order[SlotAfter(g, original_idx, j) + 1]].eliminated
              \/ g.players[g.turn_order[SlotAfter(g, original_idx, j) + 1]].has_spoken
  ELSE 0

\* next_turn from the scan on: g1 is the game with the current player marked,
\* k the outcome of the scan.
NextTurnScan(g1, k) ==
  IF k = 0
  THEN Res([g1 EXCEPT !.state = VOTING], NoneId, FALSE)
  ELSE Res([g1 EXCEPT !.current_turn_idx = SlotAfter(g1, g1.current_turn_idx, k)],
           g1.turn_order[SlotAfter(g1, g1.current_turn_idx, k) + 1], FALSE)

\* next_turn after the current player was marked as having spoken.
NextTurnMarked(g1) ==
  IF AllPlayersSpoken(g1)
  THEN Res([g1 EXCEPT !.state = VOTING], NoneId, FALSE)
  ELSE Bind(ScanNext(g1, g1.current_turn_idx), LAMBDA k : NextTurnScan(g1, k))

\* Game.next_turn
NextTurn(g) ==
  IF g.state # PLAYING
  THEN Res(g, NoneId, FALSE)
  ELSE Bind(GetCurrentPlayerId(g), LAMBDA cur :
         IF cur.err
         THEN Res(g, NoneId, TRUE)
         ELSE Bind(IF cur.ret # NoneId
                   THEN SetPlayer(g, cur.ret, "has_spoken", TRUE)
                   ELSE g,
                   NextTurnMarked))

\* src/main.py, Game.next_turn (the earlier version of the engine): the scan
\* goes to the next living player whether or not that player has spoken; the
\* state becomes Voting only when the scan comes back to original_idx on a
\* living player, and GameOver when it comes back on an eliminated one.
NextTurnMainScan(g1, original_idx) ==
  Bind(CHOOSE k \in 1..Len(g1.turn_order) :
         /\ \/ k = Len(g1.turn_order)
            \/ ~g1.players[g1.turn_order[SlotAfter(g1, original_idx, k) + 1]].eliminated
         /\ \A j \in 1..(k - 1) :
              g1.players[g1.turn_order[SlotAfter(g1, original_idx, j) + 1]].eliminated,
       LAMBDA k :
         IF k < Len(g1.turn_order)
         THEN Res([g1 EXCEPT !.current_turn_idx = SlotAfter(g1, original_idx, k)],
                  g1.turn_order[SlotAfter(g1, original_idx, k) + 1], FALSE)
         ELSE IF ~g1.players[g1.turn_order[original_idx + 1]].eliminated
         THEN Res([g1 EXCEPT !.state = VOTING], NoneId, FALSE)
         ELSE Res([g1 EXCEPT !.state = GAME_OVER], NoneId, FALSE))

NextTurnMain(g) ==
  IF g.state # PLAYING
  THEN Res(g, NoneId, FALSE)
  ELSE Bind(GetCurrentPlayerId(g), LAMBDA cur :
         IF cur.err
         THEN Res(g, NoneId, TRUE)
         ELSE Bind(IF cur.ret # NoneId
                   THEN SetPlayer(g, cur.ret, "has_spoken", TRUE)
                   ELSE g,
                   LAMBDA g1 : NextTurnMainScan(g1, g1.current_turn_idx)))

\* cast_vote with a fault: the has_voted test is left out, so a voter can
\* vote again.  C5 fails under it.
CastVoteRevote(g, voter_id, target_id) ==
  IF \/ g.state # VOTING
     \/ voter_id \notin Ids(g)
     \/ target_id \notin Ids(g)
     \/ g.players[voter_id].eliminated
     \/ g.players[target_id].eliminated
  THEN Res(g, FALSE, FALSE)
  ELSE Res([g EXCEPT !.players = [@ EXCEPT ![voter_id] =
                [@ EXCEPT !.has_voted = TRUE, !.vote_target = target_id]]],
           TRUE, FALSE)

\* Game.cast_vote
CastVote(g, voter_id, target_id) ==
  IF \/ g.state # VOTING
     \/ voter_id \notin Ids(g)
     \/ target_id \notin Ids(g)
     \/ g.players[voter_id].eliminated
     \/ g.players[target_id].eliminated
     \/ g.players[voter_id].has_voted
  THEN Res(g, FALSE, FALSE)
  ELSE Res([g EXCEPT !.players = [@ EXCEPT ![voter_id] =
                [@ EXCEPT !.has_voted = TRUE, !.vote_target = target_id]]],
           TRUE, FALSE)

\* WinDecision with a fault: the minority factions win only when they
\* outnumber the civilians (> for >=).  C6 fails under it.
WinDecisionStrict(g, civilian_count, undercover_count, mr_white_count) ==
  IF mr_white_count = 1 /\ civilian_count + undercover_count = 1
  THEN Res([g EXCEPT !.state = MR_WHITE_GUESSING], NoRole, FALSE)
  ELSE IF civilian_count = 0 \/ undercover_count + mr_white_count > civilian_count
  THEN Res([g EXCEPT !.state = GAME_OVER], UNDERCOVER, FALSE)
  ELSE IF undercover_count = 0 /\ mr_white_count = 0
  THEN Res([g EXCEPT !.state = GAME_OVER], CIVILIAN, FALSE)
  ELSE Res(g, NoRole, FALSE)

\* The decision of check_win_condition on the three living counts.
WinDecision(g, civilian_count, undercover_count, mr_white_count) ==
  IF mr_white_count = 1 /\ civilian_count + undercover_count = 1
  THEN Res([g EXCEPT !.state = MR_WHITE_GUESSING], NoRole, FALSE)
  ELSE IF civilian_count = 0 \/ undercover_count + mr_white_count >= civilian_count
  THEN Res([g EXCEPT !.state = GAME_OVER], UNDERCOVER, FALSE)
  ELSE IF undercover_count = 0 /\ mr_white_count = 0
  THEN Res([g EXCEPT !.state = GAME_OVER], CIVILIAN, FALSE)
  ELSE Res(g, NoRole, FALSE)

\* Game.check_win_condition
CheckWinCondition(g) ==
  Bind(<<CountRole(g, CIVILIAN), CountRole(g, UNDERCOVER), CountRole(g, MR_WHITE)>>,
       LAMBDA n : WinDecision(g, n[1], n[2], n[3]))

\* ResetRound with a fault: the loop clears the eliminated flag with the
\* other flags.  C39 fails under it.
ResetRoundRevives(g) ==
  [g EXCEPT
     !.players = [p \in Ids(g) |->
        [g.players[p] EXCEPT !.has_voted = FALSE, !.vote_target = NoneId,
                             !.has_spoken = FALSE, !.description = NoWord,
                             !.eliminated = FALSE]],
     !.round_number = @ + 1]

\* ResetRound with a fault: vote_target is left as it was.  C40 fails under
\* it.
ResetRoundKeepsTargets(g) ==
  [g EXCEPT
     !.players = [p \in Ids(g) |->
        [g.players[p] EXCEPT !.has_voted = FALSE,
                             !.has_spoken = FALSE, !.description = NoWord]],
     !.round_number = @ + 1]

\* The reset loop of _prepare_next_round and its round increment.
ResetRound(g) ==
  [g EXCEPT
     !.players = [p \in Ids(g) |->
        [g.players[p] EXCEPT !.has_voted = FALSE, !.vote_target = NoneId,
                             !.has_spoken = FALSE, !.description = NoWord]],
     !.round_number = @ + 1]

\* _prepare_next_round after its call of next_turn returned nt.
AfterNextTurn(nt) ==
  IF nt.err THEN Res(nt.g, NoneId, TRUE)
  ELSE IF nt.ret # NoneId
  THEN Res([nt.g EXCEPT !.state = PLAYING], NoneId, FALSE)
  ELSE Res(CheckWinCondition(nt.g).g, NoneId, FALSE)

\* Game._prepare_next_round
PrepareNextRound(g, last_eliminated_id) ==
  Bind(ResetRound(g), LAMBDA g1 :
    IF last_eliminated_id \in Range(g1.turn_order)
    THEN Bind([g1 EXCEPT !.current_turn_idx =
                 IndexOf(g1.turn_order, last_eliminated_id) - 1],
              LAMBDA g2 : Bind(NextTurn(g2), AfterNextTurn))
    ELSE Bind([g1 EXCEPT !.current_turn_idx = 0],
              LAMBDA g2 : Bind(GetCurrentPlayerId(g2), LAMBDA cur :
                IF cur.err THEN Res(g2, NoneId, TRUE)
                ELSE IF cur.ret # NoneId
                THEN Res([g2 EXCEPT !.state = PLAYING], NoneId, FALSE)
                ELSE Res(CheckWinCondition(g2).g, NoneId, FALSE))))

\* The tally of resolve_votes: votes of living voters per target.
VoteCount(g, t) ==
  Cardinality({p \in Alive(g) : g.players[p].has_voted /\ g.players[p].vote_target = t})

\* MaxVotePlayers with a fault: every target with a vote counts as a holder
\* of the maximum.  C3 fails under it.
MaxVotePlayersAnyVoted(g) == {t \in Ids(g) : VoteCount(g, t) > 0}

\* The targets holding the maximum of the tally (empty when no vote counts).
MaxVotePlayers(g) ==
  {t \in Ids(g) : VoteCount(g, t) > 0 /\ \A u \in Ids(g) : VoteCount(g, u) <= VoteCount(g, t)}

\* AfterElimination with a fault: the round is prepared also when the
\* eliminated player is Mr. White.  C7 fails under it.
AfterEliminationAdvance(g1, eliminated_player_id, remaining_players) ==
  IF g1.players[eliminated_player_id].role = MR_WHITE
  THEN Res([PrepareNextRound(g1, eliminated_player_id).g EXCEPT
              !.state = MR_WHITE_GUESSING],
           eliminated_player_id, FALSE)
  ELSE IF /\ Len(remaining_players) = 2
          /\ \E i \in 1..2 : g1.players[remaining_players[i]].role = MR_WHITE
  THEN Res([g1 EXCEPT !.state = MR_WHITE_GUESSING],
           IF g1.players[remaining_players[1]].role = MR_WHITE
           THEN remaining_players[1] ELSE remaining_players[2],
           FALSE)
  ELSE Bind(PrepareNextRound(g1, eliminated_player_id),
            LAMBDA pr : Res(pr.g, eliminated_player_id, pr.err))

\* AfterElimination with a fault: the special case of two remaining players
\* is left out (as in the single-file version, src/main.py).  C10 fails
\* under it.
AfterEliminationNoEndgame(g1, eliminated_player_id, remaining_players) ==
  IF g1.players[eliminated_player_id].role = MR_WHITE
  THEN Res([g1 EXCEPT !.state = MR_WHITE_GUESSING], eliminated_player_id, FALSE)
  ELSE Bind(PrepareNextRound(g1, eliminated_player_id),
            LAMBDA pr : Res(pr.g, eliminated_player_id, pr.err))

\* resolve_votes after the elimination: g1 is the game with the player marked
\* eliminated, remaining_players the living ones in dict order.
AfterElimination(g1, eliminated_player_id, remaining_players) ==
  IF g1.players[eliminated_player_id].role = MR_WHITE
  THEN Res([g1 EXCEPT !.state = MR_WHITE_GUESSING], eliminated_player_id, FALSE)
  ELSE IF /\ Len(remaining_players) = 2
          /\ \E i \in 1..2 : g1.players[remaining_players[i]].role = MR_WHITE
  THEN Res([g1 EXCEPT !.state = MR_WHITE_GUESSING],
           IF g1.players[remaining_players[1]].role = MR_WHITE
           THEN remaining_players[1] ELSE remaining_players[2],
           FALSE)
  ELSE Bind(PrepareNextRound(g1, eliminated_player_id),
            LAMBDA pr : Res(pr.g, eliminated_player_id, pr.err))

\* TieBreak with a fault: the tiebreaker setting is ignored and a tie always
\* draws.  C4 fails under it.
TieBreakAlwaysDraw(g, max_vote_players, pick) ==
  IF Cardinality(max_vote_players) = 1
  THEN CHOOSE t \in max_vote_players : TRUE
  ELSE pick

\* The handling of ties of resolve_votes: the player to eliminate, None when
\* nobody is.
TieBreak(g, max_vote_players, pick) ==
  IF Cardinality(max_vote_players) = 1
  THEN CHOOSE t \in max_vote_players : TRUE
  ELSE IF g.settings.tiebreaker = "random" THEN pick
  ELSE NoneId

\* resolve_votes from the handling of ties on.
Eliminate(g, max_vote_players, pick) ==
  Bind(TieBreak(g, max_vote_players, pick),
       LAMBDA eliminated_player_id :
         IF eliminated_player_id = NoneId THEN Res(g, NoneId, FALSE)
         ELSE Bind(SetPlayer(g, eliminated_player_id, "eliminated", TRUE),
                   LAMBDA g1 : Bind(GetAlivePlayers(g1), LAMBDA remaining_players :
                     AfterElimination(g1, eliminated_player_id, remaining_players))))

\* ResolveVotes with a fault: the test of the state is left out.  C33 fails
\* under it.
ResolveVotesAnyState(g, pick) ==
  Bind(MaxVotePlayers(g), LAMBDA max_vote_players :
    IF max_vote_players = {} THEN Res(g, NoneId, FALSE)
    ELSE Eliminate(g, max_vote_players, pick))

\* Game.resolve_votes; pick is the outcome of random.choice(max_vote_players).
ResolveVotes(g, pick) ==
  IF g.state # VOTING THEN Res(g, NoneId, FALSE)
  ELSE Bind(MaxVotePlayers(g), LAMBDA max_vote_players :
         IF max_vote_players = {} THEN Res(g, NoneId, FALSE)
         ELSE Eliminate(g, max_vote_players, pick))

\* check_mr_white_guess with a fault: the comparison is case-sensitive.  C8
\* fails under it.
CheckMrWhiteGuessExact(g, guess) == guess = g.civilian_word

\* check_mr_white_guess with a fault: a guess that begins the word counts as
\* the word.  C31 fails under it.
CheckMrWhiteGuessPrefix(g, guess) ==
  /\ Len(guess) <= Len(g.civilian_word)
  /\ \A i \in 1..Len(guess) : LowerChar(guess[i]) = LowerChar(g.civilian_word[i])

\* Game.check_mr_white_guess
CheckMrWhiteGuess(g, guess) == Lower(guess) = Lower(g.civilian_word)

\* Game.reset_after_mr_white_guess
ResetAfterMrWhiteGuess(g, mr_white_won) ==
  IF mr_white_won
  THEN Res([g EXCEPT !.state = GAME_OVER], NoneId, FALSE)
  ELSE PrepareNextRound(g, NoneId)

\* All orders of the first n user ids, n = 0..MaxPlayers.
AllPerms == [n \in 0..MaxPlayers |-> Perms(1..n)]

\* The outcomes of random.shuffle(player_ids) that assign the roles: every
\* order of the n players.
RoleShuffles(n) == AllPerms[n]

\* The outcomes of random.shuffle(self.turn_order) that are explored: the
\* first MaxTurnShuffles rotations of the join order.  Together with every
\* outcome of the role shuffle this yields every sequence of roles along the
\* turn order.
TurnShuffles(n) ==
  {[i \in 1..n |-> ((i - 1 + k) % n) + 1] : k \in 0..(MaxTurnShuffles - 1)}

\* RoleCounts with a fault: four players are dealt like five or six (the
\* branch for exactly four is missing).  C11 fails under it.
RoleCountsNoFour(settings, total_players, coin) ==
  IF settings.civilian_count # 0 THEN settings
  ELSE IF total_players = 3
  THEN [settings EXCEPT !.civilian_count = 2,
                        !.undercover_count = IF coin THEN 1 ELSE 0,
                        !.mr_white_count = IF coin THEN 0 ELSE 1]
  ELSE IF total_players <= 6
  THEN [settings EXCEPT !.civilian_count = total_players - 3,
                        !.undercover_count = 2, !.mr_white_count = 1]
  ELSE [settings EXCEPT !.civilian_count = total_players - 4,
                        !.undercover_count = 2, !.mr_white_count = 2]

\* RoleCounts with a fault: the automatic counts are taken whenever
\* undercover_count is 0.  C28 fails under it.
RoleCountsAutoWithoutUndercover(settings, total_players, coin) ==
  IF settings.undercover_count # 0 THEN settings
  ELSE IF total_players = 3
  THEN [settings EXCEPT !.civilian_count = 2,
                        !.undercover_count = IF coin THEN 1 ELSE 0,
                        !.mr_white_count = IF coin THEN 0 ELSE 1]
  ELSE IF total_players = 4
  THEN [settings EXCEPT !.civilian_count = 2, !.undercover_count = 1,
                        !.mr_white_count = 1]
  ELSE IF total_players <= 6
  THEN [settings EXCEPT !.civilian_count = total_players - 3,
                        !.undercover_count = 2, !.mr_white_count = 1]
  ELSE [settings EXCEPT !.civilian_count = total_players - 4,
                        !.undercover_count = 2, !.mr_white_count = 2]

\* RoleCounts with a fault: five and six players get one Undercover (the
\* counts of four, scaled).  C36 fails under it.
RoleCountsOneUndercover(settings, total_players, coin) ==
  IF settings.civilian_count # 0 THEN settings
  ELSE IF total_players = 3
  THEN [settings EXCEPT !.civilian_count = 2,
                        !.undercover_count = IF coin THEN 1 ELSE 0,
                        !.mr_white_count = IF coin THEN 0 ELSE 1]
  ELSE IF total_players = 4
  THEN [settings EXCEPT !.civilian_count = 2, !.undercover_count = 1,
                        !.mr_white_count = 1]
  ELSE IF total_players <= 6
  THEN [settings EXCEPT !.civilian_count = total_players - 2,
                        !.undercover_count = 1, !.mr_white_count = 1]
  ELSE [settings EXCEPT !.civilian_count = total_players - 4,
                        !.undercover_count = 2, !.mr_white_count = 2]

\* The automatic role counts of start_game (taken when civilian_count is 0);
\* coin is random.choice([True, False]) of the three-player case.
RoleCounts(settings, total_players, coin) ==
  IF settings.civilian_count # 0 THEN settings
  ELSE IF total_players = 3
  THEN [settings EXCEPT !.civilian_count = 2,
                        !.undercover_count = IF coin THEN 1 ELSE 0,
                        !.mr_white_count = IF coin THEN 0 ELSE 1]
  ELSE IF total_players = 4
  THEN [settings EXCEPT !.civilian_count = 2, !.undercover_count = 1,
                        !.mr_white_count = 1]
  ELSE IF total_players <= 6
  THEN [settings EXCEPT !.civilian_count = total_players - 3,
                        !.undercover_count = 2, !.mr_white_count = 1]
  ELSE [settings EXCEPT !.civilian_count = total_players - 4,
                        !.undercover_count = 2, !.mr_white_count = 2]

\* The role the three loops of start_game give to position i (1-based) of the
\* shuffled ids.
RoleAt(settings, total_players, i) ==
  IF i - 1 >= settings.civilian_count + settings.undercover_count /\ i - 1 < total_players
  THEN MR_WHITE
  ELSE IF i - 1 >= settings.civilian_count
          /\ i - 1 < settings.civilian_count + settings.undercover_count
  THEN UNDERCOVER
  ELSE IF i - 1 < settings.civilian_count THEN CIVILIAN
  ELSE NoRole

\* WordOf with a fault: Mr. White is handed the civilian word.  C12 fails
\* under it.
WordOfWhiteInformed(role, pair) ==
  IF role = UNDERCOVER THEN pair.undercover ELSE pair.civilian

\* The word start_game gives to a player of the role.
WordOf(role, pair) ==
  IF role = CIVILIAN THEN pair.civilian
  ELSE IF role = UNDERCOVER THEN pair.undercover
  ELSE NoWord

\* The player record after the three assignment loops of start_game.
Assigned(player, role, pair) ==
  IF role = NoRole THEN player
  ELSE [player EXCEPT !.role = role, !.word = WordOf(role, pair)]

\* The index (1-based) of the first player of the order who is not Mr. White,
\* or Len + 1 when all are.
FirstNonWhite(players, order) ==
  IF \E i \in DOMAIN order : players[order[i]].role # MR_WHITE
  THEN CHOOSE i \in DOMAIN order :
         /\ players[order[i]].role # MR_WHITE
         /\ \A j \in 1..(i - 1) : players[order[j]].role = MR_WHITE
  ELSE Len(order) + 1

\* Reordered with a fault: the first player who is not Mr. White is copied
\* to the front instead of being swapped with the front.  C13 fails under it.
ReorderedCopy(settings, order, first_player_idx) ==
  IF ~settings.mr_white_start /\ first_player_idx <= Len(order) /\ first_player_idx > 1
  THEN [order EXCEPT ![1] = order[first_player_idx]]
  ELSE order

\* Reordered with a fault: the shuffled order is kept whatever the setting.
\* C29 fails under it.
ReorderedKept(settings, order, first_player_idx) == order

\* The turn order after the Mr. White start adjustment of start_game.
Reordered(settings, order, first_player_idx) ==
  IF ~settings.mr_white_start /\ first_player_idx <= Len(order) /\ first_player_idx > 1
  THEN Swap(order, 1, first_player_idx)
  ELSE order

\* Game.start_game; pairs is SOCCER_PLAYER_PAIRS, coin / pair / player_ids /
\* order are the outcomes of the four random draws.
StartGameOp(g, pairs, coin, pair, player_ids, order) ==
  IF Len(g.player_keys) < 3 THEN Res(g, FALSE, FALSE)
  ELSE IF Len(pairs) = 0 THEN Res(g, FALSE, FALSE)
  ELSE Bind(RoleCounts(g.settings, Len(g.player_keys), coin), LAMBDA settings :
         Bind([p \in Ids(g) |->
                 Assigned(g.players[p],
                          RoleAt(settings, Len(g.player_keys), IndexOf(player_ids, p)),
                          pair)],
              LAMBDA players :
                Res([g EXCEPT !.settings = settings,
                              !.civilian_word = pair.civilian,
                              !.undercover_word = pair.undercover,
                              !.players = players,
                              !.turn_order =
                                 Reordered(settings, order, FirstNonWhite(players, order)),
                              !.current_turn_idx = 0,
                              !.state = PLAYING,
                              !.round_number = 1],
                    TRUE, FALSE)))

\* ValidGameSettings with a fault: the comparison of Civilians with
\* Undercover is left out.  C30 fails under it.
ValidGameSettingsTotalOnly(settings, player_count) ==
  \/ settings.civilian_count = 0 /\ settings.undercover_count = 0
     /\ settings.mr_white_count = 0
  \/ /\ settings.civilian_count + settings.undercover_count + settings.mr_white_count
          = player_count
     /\ settings.civilian_count # 0
     /\ ~(settings.undercover_count = 0 /\ settings.mr_white_count = 0)

\* utils/settings.py validate_game_settings: TRUE when it returns no error.
ValidGameSettings(settings, player_count) ==
  \/ settings.civilian_count = 0 /\ settings.undercover_count = 0
     /\ settings.mr_white_count = 0
  \/ /\ settings.civilian_count + settings.undercover_count + settings.mr_white_count
          = player_count
     /\ ~(settings.civilian_count <= settings.undercover_count)
     /\ settings.civilian_count # 0
     /\ ~(settings.undercover_count = 0 /\ settings.mr_white_count = 0)

\* ------------------------------------------------------------------ state
VARIABLES
  pairs,                    \* config.SOCCER_PLAYER_PAIRS, loaded at process start
  games,                    \* config.games: chat_id -> Game (NoGame when absent)
  active_mr_white_guesses,  \* config.active_mr_white_guesses: user_id -> chat_id (0 when absent)
  chat_settings,            \* utils.settings.chat_settings: chat_id -> settings
  ev,                       \* the last command that had an effect, and what it returned
  suspended                 \* the vote handlers waiting at an await, and the Game they hold

vars == <<pairs, games, active_mr_white_guesses, chat_settings, ev, suspended>>

\* op: the command; ret: what its engine call returned (a user id, 0 for None,
\* -1 when nothing was resolved); winner: the role handed to game_over;
\* raised: the handler ended by raising.
\* arg: the text of the private message that carried a guess.
Ev(op, ret, raised) ==
  [op |-> op, ret |-> ret, winner |-> NoRole, raised |-> raised, arg |-> NoWord]
EvWin(op, ret, winner) ==
  [op |-> op, ret |-> ret, winner |-> winner, raised |-> FALSE, arg |-> NoWord]

In(c) == games[c] # NoGame

Init ==
  /\ pairs \in {<<>>, <<PAIR>>}
  /\ games = [c \in Chats |-> NoGame]
  /\ active_mr_white_guesses = [u \in Users |-> 0]
  /\ chat_settings = [c \in Chats |-> DefaultSettings]
  /\ ev = Ev("init", 0, FALSE)
  /\ suspended = [votes |-> {}, orphan |-> [c \in Chats |-> NoGame]]

\* ------------------------------------------------------------------ handlers
\* User ids are opaque: the users are numbered in the order in which they
\* enter a game, the creator being user 1.
NextUser(g) == Len(g.player_keys) + 1

\* new_game replacing a registered game that is over.
NewGameCommandOverFinished(g, saved_settings, user_id) ==
  IF g # NoGame /\ g.state # GAME_OVER THEN Res(g, FALSE, FALSE)
  ELSE Res(AddPlayer([Game(user_id) EXCEPT !.settings = saved_settings], user_id).g,
           TRUE, FALSE)

\* command_handlers.new_game for a chat whose registry entry is g (NoGame when
\* the chat has none) and whose saved settings are saved_settings: the entry
\* it leaves and whether a game was created.
NewGameCommand(g, saved_settings, user_id) ==
  IF g # NoGame THEN Res(g, FALSE, FALSE)
  ELSE Res(AddPlayer([Game(user_id) EXCEPT !.settings = saved_settings], user_id).g,
           TRUE, FALSE)

\* command_handlers.new_game
NewGame(c, u) ==
  /\ u = NextUser(NoGame)
  /\ \E r \in {NewGameCommand(games[c], chat_settings[c], u)} :
       /\ r.ret
       /\ games' = [games EXCEPT ![c] = r.g]
  /\ ev' = Ev("newgame", u, FALSE)
  /\ UNCHANGED <<pairs, suspended, active_mr_white_guesses, chat_settings>>

\* command_handlers.join_game on a registered game: the game it leaves and
\* whether the player joined.
JoinGameCommand(g, user_id) ==
  IF g.state # WAITING_FOR_PLAYERS THEN Res(g, FALSE, FALSE)
  ELSE AddPlayer(g, user_id)

\* command_handlers.join_game
JoinGame(c, u) ==
  /\ In(c)
  /\ games[c].state = WAITING_FOR_PLAYERS
  /\ u = NextUser(games[c])
  /\ \E r \in {JoinGameCommand(games[c], u)} :
       /\ r.ret
       /\ games' = [games EXCEPT ![c] = r.g]
  /\ ev' = Ev("join", u, FALSE)
  /\ UNCHANGED <<pairs, suspended, active_mr_white_guesses, chat_settings>>

SettingValues(option) ==
  IF option = "mr_white_start" THEN BOOLEAN
  ELSE IF option = "tiebreaker" THEN {"random", "none"}
  ELSE 0..MaxCount

SettingOptions ==
  {"mr_white_start", "tiebreaker", "civilian_count", "undercover_count", "mr_white_count"}

\* command_handlers.settings: option is one of the five option names, value
\* the parsed value.
Settings(c, u) ==
  /\ In(c)
  /\ games[c].creator_id = u
  /\ games[c].state = WAITING_FOR_PLAYERS
  /\ \E option \in SettingOptions : \E value \in SettingValues(option) :
       /\ games' = [games EXCEPT ![c] = [@ EXCEPT !.settings = [@ EXCEPT ![option] = value]]]
       /\ chat_settings' = [chat_settings EXCEPT ![c] =
                              [games[c].settings EXCEPT ![option] = value]]
  /\ ev' = Ev("settings", 0, FALSE)
  /\ UNCHANGED <<pairs, suspended, active_mr_white_guesses>>

\* AlreadyStarted with a fault: a game that is over counts as not started,
\* so that it can be started again.  C15 fails under it.
AlreadyStartedUnlessOver(g) ==
  g.state # WAITING_FOR_PLAYERS /\ g.state # GAME_OVER

\* The state test of start_game: "Game already started."
AlreadyStarted(g) == g.state # WAITING_FOR_PLAYERS

\* StartRejected with a fault: the state test is left out.  C14 fails under
\* it.
StartRejectedNoStateTest(g, u) ==
  \/ g.creator_id # u
  \/ Len(g.player_keys) < 3
  \/ /\ (g.settings.civilian_count > 0 \/ g.settings.undercover_count > 0
           \/ g.settings.mr_white_count > 0)
     /\ ~ValidGameSettings(g.settings, Len(g.player_keys))
  \/ Len(pairs) = 0

\* The early returns of command_handlers.start_game for a registered game g
\* and the user u who sent the command.
StartRejected(g, u) ==
  \/ g.creator_id # u
  \/ AlreadyStarted(g)
  \/ Len(g.player_keys) < 3
  \/ /\ (g.settings.civilian_count > 0 \/ g.settings.undercover_count > 0
           \/ g.settings.mr_white_count > 0)
     /\ ~ValidGameSettings(g.settings, Len(g.player_keys))
  \/ Len(pairs) = 0

\* command_handlers.start_game on the registered game g; coin, pair,
\* player_ids and order are the outcomes of the random draws of
\* Game.start_game.
StartGameCommand(g, u, coin, pair, player_ids, order) ==
  IF StartRejected(g, u) THEN Res(g, FALSE, FALSE)
  ELSE StartGameOp(g, pairs, coin, pair, player_ids, order)

\* command_handlers.start_game, as a step that starts the game.
StartGame(c, u) ==
  /\ In(c)
  /\ ~StartRejected(games[c], u)
  /\ \E coin \in BOOLEAN, pair \in Range(pairs) :
       \E player_ids \in RoleShuffles(Len(games[c].player_keys)),
          order \in TurnShuffles(Len(games[c].player_keys)) :
         \E r \in {StartGameCommand(games[c], u, coin, pair, player_ids, order)} :
            /\ r.ret
            /\ games' = [games EXCEPT ![c] = r.g]
  /\ ev' = Ev("start", 0, FALSE)
  /\ UNCHANGED <<pairs, suspended, active_mr_white_guesses, chat_settings>>

\* done_turn after it marked the user as having spoken (game g1): the game
\* it leaves.
DoneTurnAdvance(g1) ==
  IF AllPlayersSpoken(g1) THEN [g1 EXCEPT !.state = VOTING]
  ELSE Bind(NextTurn(g1), LAMBDA nt :
         IF nt.ret # NoneId THEN nt.g ELSE [nt.g EXCEPT !.state = VOTING])

\* done_turn whose sender test asks only that the sender takes part in the
\* game: any participant may end the current turn.
DoneTurnCommandAnyParticipant(g, user_id, description) ==
  IF g.state # PLAYING THEN Res(g, FALSE, FALSE)
  ELSE Bind(GetCurrentPlayerId(g), LAMBDA cur :
         IF cur.err THEN Res(g, FALSE, TRUE)
         ELSE IF user_id \notin DOMAIN g.players THEN Res(g, FALSE, FALSE)
         ELSE Bind(IF description # NoWord
                   THEN SetPlayer(g, user_id, "description", description)
                   ELSE g,
                   LAMBDA g0 :
                     Res(DoneTurnAdvance(SetPlayer(g0, user_id, "has_spoken", TRUE)),
                         TRUE, FALSE)))

\* game_handlers.done_turn on the registered game g: user_id sent /done with
\* the description (NoWord for the empty string).  ret tells whether the
\* handler went past its tests; err that get_current_player_id raised.
DoneTurnCommand(g, user_id, description) ==
  IF g.state # PLAYING THEN Res(g, FALSE, FALSE)
  ELSE Bind(GetCurrentPlayerId(g), LAMBDA cur :
         IF cur.err THEN Res(g, FALSE, TRUE)
         ELSE IF cur.ret # user_id THEN Res(g, FALSE, FALSE)
         ELSE Bind(IF description # NoWord
                   THEN SetPlayer(g, user_id, "description", description)
                   ELSE g,
                   LAMBDA g0 :
                     Res(DoneTurnAdvance(SetPlayer(g0, user_id, "has_spoken", TRUE)),
                         TRUE, FALSE)))

\* game_handlers.done_turn, /done without a description.
DoneTurn(c, u) ==
  /\ In(c)
  /\ \E r \in {DoneTurnCommand(games[c], u, NoWord)} :
       /\ r.ret
       /\ games' = [games EXCEPT ![c] = r.g]
  /\ ev' = Ev("done", u, FALSE)
  /\ UNCHANGED <<pairs, suspended, active_mr_white_guesses, chat_settings>>

\* game_handlers.done_turn, /done followed by a description.  Descriptions
\* are followed for games of up to MaxDescribedPlayers participants, through
\* round MaxDescribedRound.
DoneTurnDescribed(c, u) ==
  /\ In(c)
  /\ Len(games[c].player_keys) <= MaxDescribedPlayers
  /\ games[c].round_number <= MaxDescribedRound
  /\ \E r \in {DoneTurnCommand(games[c], u, DescriptionText)} :
       /\ r.ret
       /\ games' = [games EXCEPT ![c] = r.g]
  /\ ev' = Ev("done", u, FALSE)
  /\ UNCHANGED <<pairs, suspended, active_mr_white_guesses, chat_settings>>

\* game_handlers.next_player
NextPlayer(c) ==
  /\ In(c)
  /\ games[c].state = PLAYING
  /\ \E u \in Users, is_admin \in BOOLEAN : games[c].creator_id = u \/ is_admin
  /\ ~GetCurrentPlayerId(games[c]).err
  /\ \E nt \in {NextTurn(games[c])} :
       /\ games' = [games EXCEPT ![c] = nt.g]
       /\ ev' = Ev("next", nt.ret, FALSE)
  /\ UNCHANGED <<pairs, suspended, active_mr_white_guesses, chat_settings>>

\* game_handlers.all_spoken
AllSpoken(c) ==
  /\ In(c)
  /\ games[c].state = PLAYING
  /\ \E u \in Users, is_admin \in BOOLEAN : games[c].creator_id = u \/ is_admin
  /\ games' = [games EXCEPT ![c] = [@ EXCEPT !.state = VOTING]]
  /\ ev' = Ev("allspoken", 0, FALSE)
  /\ UNCHANGED <<pairs, suspended, active_mr_white_guesses, chat_settings>>

\* command_handlers.game_over: sets the state to GameOver, sends the summary
\* and removes the game from the registry.
GameOver(g) == NoGame

\* vote after resolve_votes eliminated somebody and left a state other than
\* MrWhiteGuessing: cw is what check_win_condition returned.  Without a winner
\* the handler reads game.players[get_current_player_id()], which raises
\* KeyError when that id is None.
VoteWinCheck(eliminated_id, cw) ==
  IF cw.ret # NoRole
  THEN [g |-> GameOver(cw.g), guess |-> NoneId, ev |-> EvWin("vote", eliminated_id, cw.ret)]
  ELSE Bind(GetCurrentPlayerId(cw.g), LAMBDA cur :
         [g |-> cw.g, guess |-> NoneId,
          ev |-> Ev("vote", eliminated_id, cur.err \/ cur.ret = NoneId)])

\* vote after a tie that eliminated nobody: pr is what _prepare_next_round
\* left.
VoteTie(pr) ==
  Bind(GetCurrentPlayerId(pr.g), LAMBDA cur :
    [g |-> pr.g, guess |-> NoneId,
     ev |-> Ev("vote", NoneId, pr.err \/ cur.err \/ cur.ret = NoneId)])

\* vote after resolve_votes returned rv.
VoteResolved(rv) ==
  IF rv.ret # NoneId
  THEN IF rv.g.state = MR_WHITE_GUESSING
       THEN [g |-> rv.g, guess |-> rv.ret, ev |-> Ev("vote", rv.ret, FALSE)]
       ELSE Bind(CheckWinCondition(rv.g), LAMBDA cw : VoteWinCheck(rv.ret, cw))
  ELSE Bind(PrepareNextRound(rv.g, NoneId), VoteTie)

\* game_handlers.vote, from resolve_votes on, given the game after the vote
\* was cast and the outcome pick of the tiebreak draw: the game left in the
\* registry (NoGame after game_over), the guess registered, and the event.
VoteResolve(c, g1, pick) == Bind(ResolveVotes(g1, pick), VoteResolved)

\* game_handlers.vote; target_id is the player found by the username given.
Vote(c, user_id, target_id) ==
  /\ In(c)
  /\ games[c].state = VOTING
  /\ games[c].round_number <= MaxRound
  /\ user_id \in Ids(games[c])
  /\ ~games[c].players[user_id].eliminated
  /\ ~games[c].players[user_id].has_voted
  /\ target_id \in Ids(games[c])
  /\ ~games[c].players[target_id].eliminated
  /\ \E cv \in {CastVote(games[c], user_id, target_id)} :
       /\ cv.ret
       /\ IF ~AllPlayersVoted(cv.g)
          THEN /\ games' = [games EXCEPT ![c] = cv.g]
               /\ ev' = Ev("vote", -1, FALSE)
               /\ UNCHANGED active_mr_white_guesses
          ELSE \E pick \in MaxVotePlayers(cv.g) :
                 \E r \in {VoteResolve(c, cv.g, pick)} :
                    /\ games' = [games EXCEPT ![c] = r.g]
                    /\ ev' = r.ev
                    /\ active_mr_white_guesses' =
                         IF r.guess # NoneId
                         THEN [active_mr_white_guesses EXCEPT ![r.guess] = c]
                         ELSE active_mr_white_guesses
  /\ UNCHANGED <<pairs, suspended, chat_settings>>

\* The same with the state set to Voting instead of Playing.
GuessWrongToVoting(rs) ==
  IF rs.err THEN [g |-> rs.g, ev |-> Ev("guess", 0, TRUE)]
  ELSE Bind(CheckWinCondition([rs.g EXCEPT !.state = VOTING]), LAMBDA cw :
         IF cw.ret # NoRole
         THEN [g |-> GameOver(cw.g), ev |-> EvWin("guess", 0, cw.ret)]
         ELSE [g |-> cw.g, ev |-> Ev("guess", 0, GetCurrentPlayerId(cw.g).err)])

\* handle_mr_white_guess after a wrong guess, reset_after_mr_white_guess
\* having left rs: the state is set to Playing and the win condition checked.
GuessWrong(rs) ==
  IF rs.err THEN [g |-> rs.g, ev |-> Ev("guess", 0, TRUE)]
  ELSE Bind(CheckWinCondition([rs.g EXCEPT !.state = PLAYING]), LAMBDA cw :
         IF cw.ret # NoRole
         THEN [g |-> GameOver(cw.g), ev |-> EvWin("guess", 0, cw.ret)]
         ELSE [g |-> cw.g, ev |-> Ev("guess", 0, GetCurrentPlayerId(cw.g).err)])

\* mr_white_handler.handle_mr_white_guess, the part after the guess was found
\* valid and removed from the registry: the game left in the registry and the
\* event.
GuessResolve(g, guess) ==
  IF CheckMrWhiteGuess(g, guess)
  THEN [g |-> GameOver(g), ev |-> EvWin("guess", 1, MR_WHITE)]
  ELSE Bind(ResetAfterMrWhiteGuess(g, FALSE), GuessWrong)

\* The registry with the entry of user_id kept.
DelGuessSkipped(user_id) == active_mr_white_guesses

\* del active_mr_white_guesses[user_id]
DelGuess(user_id) == [active_mr_white_guesses EXCEPT ![user_id] = 0]

\* mr_white_handler.handle_mr_white_guess: a private message of user_id with
\* the given text.
HandleMrWhiteGuess(user_id, text) ==
  /\ active_mr_white_guesses[user_id] # 0
  /\ active_mr_white_guesses' = DelGuess(user_id)
  /\ \E chat_id \in {active_mr_white_guesses[user_id]} :
       IF ~In(chat_id) \/ games[chat_id].state # MR_WHITE_GUESSING
       THEN /\ ev' = Ev("guess_invalid", 0, FALSE)
            /\ UNCHANGED games
       ELSE \E r \in {GuessResolve(games[chat_id], Strip(text))} :
               /\ games' = [games EXCEPT ![chat_id] = r.g]
               /\ ev' = [r.ev EXCEPT !.arg = text]
  /\ UNCHANGED <<pairs, suspended, chat_settings>>

\* command_handlers.end_game
EndGame(c) ==
  /\ In(c)
  /\ \E u \in Users, is_admin \in BOOLEAN : games[c].creator_id = u \/ is_admin
  /\ active_mr_white_guesses' =
       [uid \in Users |-> IF active_mr_white_guesses[uid] = c THEN 0
                          ELSE active_mr_white_guesses[uid]]
  /\ games' = [games EXCEPT ![c] = NoGame]
  /\ ev' = Ev("end", 0, FALSE)
  /\ UNCHANGED <<pairs, suspended, chat_settings>>

\* --------------------------------------------------- tables of five and seven
\* Games of five and of seven participants, from the waiting game on.  The
\* users are 1..7 in join order.
LargeCounts == {5, 7}
LargeUsers == 1..7

RECURSIVE Joined(_, _)
\* The registry entry after /newgame of user 1 and /join of users 2..n, the
\* chat's saved settings being saved_settings.
Joined(saved_settings, n) ==
  IF n = 1 THEN NewGameCommand(NoGame, saved_settings, 1).g
  ELSE JoinGameCommand(Joined(saved_settings, n - 1), n).g

InitLarge ==
  /\ pairs = <<PAIR>>
  /\ chat_settings \in [Chats -> {[DefaultSettings EXCEPT !.tiebreaker = t] :
                                    t \in {"random", "none"}}]
  /\ \E n \in LargeCounts : games = [c \in Chats |-> Joined(chat_settings[c], n)]
  /\ active_mr_white_guesses = [u \in LargeUsers |-> 0]
  /\ ev = Ev("join", 0, FALSE)
  /\ suspended = [votes |-> {}, orphan |-> [c \in Chats |-> NoGame]]

\* The outcomes of the role shuffle that are explored for these tables: the
\* rotations of the join order, which put every role on each of the first
\* MaxCandidates participants.
LargeRoleShuffles(n) == {[i \in 1..n |-> ((i - 1 + k) % n) + 1] : k \in 0..(n - 1)}

\* command_handlers.start_game for these tables.
StartGameLarge(c, u) ==
  /\ In(c)
  /\ \E coin \in BOOLEAN, pair \in Range(pairs) :
       \E player_ids \in LargeRoleShuffles(Len(games[c].player_keys)),
          order \in TurnShuffles(Len(games[c].player_keys)) :
         \E r \in {StartGameCommand(games[c], u, coin, pair, player_ids, order)} :
            /\ r.ret
            /\ games' = [games EXCEPT ![c] = r.g]
  /\ ev' = Ev("start", 0, FALSE)
  /\ UNCHANGED <<pairs, suspended, active_mr_white_guesses, chat_settings>>

\* game_handlers.vote for these tables.  The votes are followed in join
\* order of the voters and for the first MaxCandidates participants as
\* targets: resolve_votes reads the number of votes of each target only.
VoteLarge(c, user_id, target_id) ==
  /\ In(c)
  /\ \A q \in 1..(user_id - 1) :
       q \in Ids(games[c]) => (games[c].players[q].eliminated \/ games[c].players[q].has_voted)
  /\ target_id \in 1..MaxCandidates
  /\ Vote(c, user_id, target_id)


\* What a message tells: whether it goes to the group chat or to the private
\* chat of user `to`, and the role and the word it names for participant
\* `about` (NoRole, NoWord when it names none).
Message(group, to, about, role, word) ==
  [group |-> group, to |-> to, about |-> about, role |-> role, word |-> word]

\* message_utils.generate_role_message, sent by start_game to player_id alone:
\* a Civilian or an Undercover is told the word and not the role, Mr. White
\* the role.
GenerateRoleMessage(g, player_id) ==
  IF g.players[player_id].role \in {CIVILIAN, UNDERCOVER}
  THEN Message(FALSE, player_id, player_id, NoRole, g.players[player_id].word)
  ELSE Message(FALSE, player_id, player_id, MR_WHITE, NoWord)

\* The elimination message naming the word of the eliminated player as well.
GenerateEliminationMessageWithWord(g, eliminated_id) ==
  Message(TRUE, NoneId, eliminated_id, g.players[eliminated_id].role,
          g.players[eliminated_id].word)

\* message_utils.generate_elimination_message, replied to the group by vote.
GenerateEliminationMessage(g, eliminated_id) ==
  Message(TRUE, NoneId, eliminated_id, g.players[eliminated_id].role, NoWord)

\* message_utils.generate_mr_white_guessing_message, replied to the group by
\* vote when resolve_votes left MrWhiteGuessing.
GenerateMrWhiteGuessingMessage(g, eliminated_id) ==
  Message(TRUE, NoneId, eliminated_id, MR_WHITE, NoWord)

\* The group message of handle_mr_white_guess: it repeats the guess, which
\* names the Civilians' word when the guess is correct.
GuessGroupMessage(g, user_id, correct) ==
  Message(TRUE, NoneId, user_id, NoRole,
          IF correct THEN g.civilian_word ELSE NoWord)

\* The summary end_game replies to the group for a started game: both words
\* and every player's role.
EndGameSummary(g) ==
  IF g.state = WAITING_FOR_PLAYERS THEN {}
  ELSE {Message(TRUE, NoneId, p, g.players[p].role,
                IF g.players[p].role = UNDERCOVER THEN g.undercover_word
                ELSE g.civilian_word) : p \in Ids(g)}

\* game_handlers.vote when a reply to the group raises (telegram.error): the
\* handler has no try around its replies and stops there.  The first reply
\* follows cast_vote (lines 212-215), the next one follows resolve_votes
\* (line 223, or line 258 after a tie); what comes after them (the registry
\* entry, check_win_condition, game_over, _prepare_next_round after a tie) is
\* not run.  A reply that raises after the last state change leaves what the
\* command leaves, and is not a step of its own.
VoteReplyFails(c, user_id, target_id) ==
  /\ In(c)
  /\ games[c].state = VOTING
  /\ games[c].round_number <= MaxRound
  /\ user_id \in Ids(games[c])
  /\ ~games[c].players[user_id].eliminated
  /\ ~games[c].players[user_id].has_voted
  /\ target_id \in Ids(games[c])
  /\ ~games[c].players[target_id].eliminated
  /\ \E cv \in {CastVote(games[c], user_id, target_id)} :
       /\ cv.ret
       /\ AllPlayersVoted(cv.g)
       /\ \/ games' = [games EXCEPT ![c] = cv.g]
          \/ \E pick \in MaxVotePlayers(cv.g) :
               \E rv \in {ResolveVotes(cv.g, pick)} :
                  games' = [games EXCEPT ![c] = rv.g]
  /\ ev' = Ev("vote_failed", 0, TRUE)
  /\ UNCHANGED <<pairs, suspended, active_mr_white_guesses, chat_settings>>

\* handle_mr_white_guess when the reply to the guesser (line 42) or the
\* message to the group (line 48) raises: the guess was evaluated, and the
\* handler stops before it deletes the registry entry (line 55).
GuessReplyFails(user_id, text) ==
  /\ active_mr_white_guesses[user_id] # 0
  /\ In(active_mr_white_guesses[user_id])
  /\ games[active_mr_white_guesses[user_id]].state = MR_WHITE_GUESSING
  /\ ev' = Ev("guess_failed",
              IF CheckMrWhiteGuess(games[active_mr_white_guesses[user_id]],
                                   Strip(text)) THEN 1 ELSE 0,
              TRUE)
  /\ UNCHANGED <<pairs, suspended, games, active_mr_white_guesses, chat_settings>>

\* ------------------------------------------------------- handlers at awaits
\* A coroutine of game_handlers.vote gives up control at each
\* `await update.message.reply_text(...)`.  suspended.votes holds the vote
\* handlers that wait at such a point: chat and user_id are the handler's
\* locals, `at` is the await it waits at ("voted": line 213, after cast_vote;
\* "resolved": line 223, after resolve_votes returned eliminated_id; "tie":
\* line 258, after resolve_votes returned None), eliminated_id is its local of
\* that name, round is game.round_number and out the number of eliminated
\* players when it was called.  The local
\* `game` of a suspended handler is the object it read from games[chat_id] at
\* line 174; when another handler deletes the registry entry, the object
\* lives on in suspended.orphan.

\* The Game object the suspended vote handlers of chat c hold.
HeldGame(c) == IF suspended.orphan[c] # NoGame THEN suspended.orphan[c] ELSE games[c]

\* The registry after a resumed handler of chat c left its Game as g2;
\* removed: the handler ran `del games[chat_id]`.
GamesAfterResume(c, g2, removed) ==
  IF suspended.orphan[c] # NoGame THEN games
  ELSE [games EXCEPT ![c] = IF removed THEN NoGame ELSE g2]

\* The waiting handlers V and the object they hold, after the same.
SuspendedAfterResume(c, g2, removed, V) ==
  [votes |-> V,
   orphan |-> [suspended.orphan EXCEPT ![c] =
                 IF (\E s \in V : s.chat = c) /\ (suspended.orphan[c] # NoGame \/ removed)
                 THEN g2 ELSE NoGame]]

\* game_handlers.vote, lines 165-213: the tests, cast_vote, and the await of
\* the first reply.  The handlers of the last MaxSuspended votes of a round
\* are the ones followed across their awaits; the earlier ones run to their
\* end in one step (Vote).
VoteSuspend(c, user_id, target_id) ==
  /\ Cardinality(suspended.votes) < MaxSuspended
  /\ In(c)
  /\ games[c].state = VOTING
  /\ games[c].round_number <= MaxConcurrentRound
  /\ Len(games[c].player_keys) <= MaxConcurrentPlayers
  /\ user_id \in Ids(games[c])
  /\ ~games[c].players[user_id].eliminated
  /\ ~games[c].players[user_id].has_voted
  /\ target_id \in Ids(games[c])
  /\ ~games[c].players[target_id].eliminated
  /\ \E cv \in {CastVote(games[c], user_id, target_id)} :
       /\ cv.ret
       /\ Cardinality({p \in Ids(cv.g) : ~cv.g.players[p].eliminated
                                         /\ ~cv.g.players[p].has_voted}) < MaxSuspended
       /\ games' = [games EXCEPT ![c] = cv.g]
  /\ suspended' = [suspended EXCEPT !.votes = @ \cup
                     {[chat |-> c, user_id |-> user_id, at |-> "voted",
                       eliminated_id |-> NoneId, round |-> games[c].round_number,
                       out |-> Cardinality(Ids(games[c]) \ Alive(games[c]))]}]
  /\ ev' = Ev("vote_await", -1, FALSE)
  /\ UNCHANGED <<pairs, active_mr_white_guesses, chat_settings>>

\* game_handlers.vote, lines 218-223 or 218-258: resumed after the first
\* reply, up to the await of the reply that tells the outcome.
VoteResumeVoted(s) ==
  /\ s.at = "voted"
  /\ \E g \in {HeldGame(s.chat)}, V \in {suspended.votes \ {s}} :
       IF ~AllPlayersVoted(g)
       THEN /\ suspended' = SuspendedAfterResume(s.chat, g, FALSE, V)
            /\ ev' = Ev("vote_resumed", -1, FALSE)
            /\ UNCHANGED games
       ELSE \E pick \in (IF MaxVotePlayers(g) = {} THEN {NoneId} ELSE MaxVotePlayers(g)) :
              \E rv \in {ResolveVotes(g, pick)} :
                 /\ games' = GamesAfterResume(s.chat, rv.g, FALSE)
                 /\ suspended' = SuspendedAfterResume(s.chat, rv.g, FALSE,
                      V \cup {[s EXCEPT !.at = IF rv.ret # NoneId THEN "resolved" ELSE "tie",
                                        !.eliminated_id = rv.ret]})
                 /\ ev' = Ev("vote_await", rv.ret, FALSE)
  /\ UNCHANGED <<pairs, active_mr_white_guesses, chat_settings>>

\* game_handlers.vote, lines 225-255: resumed after the elimination message.
\* game_over returns at once when the chat is not in games.
VoteResumeResolved(s) ==
  /\ s.at = "resolved"
  /\ \E g \in {HeldGame(s.chat)}, V \in {suspended.votes \ {s}} :
       IF g.state = MR_WHITE_GUESSING
       THEN /\ active_mr_white_guesses' =
                 [active_mr_white_guesses EXCEPT ![s.eliminated_id] = s.chat]
            /\ suspended' = SuspendedAfterResume(s.chat, g, FALSE, V)
            /\ ev' = Ev("vote_resumed", s.eliminated_id, FALSE)
            /\ UNCHANGED games
       ELSE \E cw \in {CheckWinCondition(g)} :
              \E r \in {VoteWinCheck(s.eliminated_id, cw)} :
                \E removed \in {cw.ret # NoRole /\ games[s.chat] # NoGame} :
                  \E g2 \in {IF removed THEN [cw.g EXCEPT !.state = GAME_OVER] ELSE cw.g} :
                     /\ games' = GamesAfterResume(s.chat, g2, removed)
                     /\ suspended' = SuspendedAfterResume(s.chat, g2, removed, V)
                     /\ ev' = [r.ev EXCEPT !.op = "vote_resumed"]
                     /\ UNCHANGED active_mr_white_guesses
  /\ UNCHANGED <<pairs, chat_settings>>

\* game_handlers.vote, lines 262-272: resumed after the tie message.
VoteResumeTie(s) ==
  /\ s.at = "tie"
  /\ \E g \in {HeldGame(s.chat)}, V \in {suspended.votes \ {s}} :
       \E pr \in {PrepareNextRound(g, NoneId)} : \E r \in {VoteTie(pr)} :
          /\ games' = GamesAfterResume(s.chat, r.g, FALSE)
          /\ suspended' = SuspendedAfterResume(s.chat, r.g, FALSE, V)
          /\ ev' = [r.ev EXCEPT !.op = "vote_resumed"]
  /\ UNCHANGED <<pairs, active_mr_white_guesses, chat_settings>>

\* command_handlers.end_game run to its end while vote handlers wait: the
\* registry entry goes, the object stays with the handlers that hold it.
EndGameSuspended(c) ==
  /\ suspended.votes # {}
  /\ In(c)
  /\ \E u \in Users, is_admin \in BOOLEAN : games[c].creator_id = u \/ is_admin
  /\ active_mr_white_guesses' =
       [uid \in Users |-> IF active_mr_white_guesses[uid] = c THEN 0
                          ELSE active_mr_white_guesses[uid]]
  /\ games' = [games EXCEPT ![c] = NoGame]
  /\ suspended' = [suspended EXCEPT !.orphan[c] =
                     IF \E s \in suspended.votes : s.chat = c THEN games[c] ELSE NoGame]
  /\ ev' = Ev("end", 0, FALSE)
  /\ UNCHANGED <<pairs, chat_settings>>
\* ------------------------------------------------------------------ spec
\* A command whose handler only replies (a rejected command) changes nothing
\* and is a stuttering step.
Next ==
  \/ \E c \in Chats, u \in Users : NewGame(c, u)
  \/ \E c \in Chats, u \in Users : JoinGame(c, u)
  \/ \E c \in Chats, u \in Users : Settings(c, u)
  \/ \E c \in Chats, u \in Users : StartGame(c, u)
  \/ \E c \in Chats, u \in Users : DoneTurn(c, u)
  \/ \E c \in Chats : NextPlayer(c)
  \/ \E c \in Chats, u \in Users, t \in Users : Vote(c, u, t)
  \/ \E u \in Users, text \in GuessTexts : HandleMrWhiteGuess(u, text)
  \/ \E c \in Chats : EndGame(c)

Spec == Init /\ [][Next]_vars

\* The same with the /allspoken command, which moves a game from Playing to
\* Voting at any point of a round.  The flags it leaves behind (has_spoken,
\* current_turn_idx) are overwritten by _prepare_next_round before they are
\* read again.
NextForced == Next \/ \E c \in Chats : AllSpoken(c)

SpecForced == Init /\ [][NextForced]_vars

\* The same as Next with deliveries that may fail in the vote command and in
\* the guess handler.
NextLossy ==
  \/ Next
  \/ \E c \in Chats, u \in Users, t \in Users : VoteReplyFails(c, u, t)
  \/ \E u \in Users, text \in GuessTexts : GuessReplyFails(u, text)

SpecLossy == Init /\ [][NextLossy]_vars

\* The same as Next with vote handlers that give up control at their awaits:
\* while a vote handler waits, other vote handlers run up to their awaits or
\* on from them, and end_game runs.  Nothing in the handlers or in the
\* registries keeps two handlers of one chat apart.
VoteResume(s) == VoteResumeVoted(s) \/ VoteResumeResolved(s) \/ VoteResumeTie(s)

\* A run is followed no further once an entry of active_mr_white_guesses
\* names a chat that games does not hold.
Followed ==
  \A u \in Users : active_mr_white_guesses[u] # 0 => games[active_mr_white_guesses[u]] # NoGame

NextConcurrent ==
  \/ suspended.votes = {} /\ Followed /\ Next
  \/ \E c \in Chats, u \in Users, t \in Users : VoteSuspend(c, u, t)
  \/ \E s \in suspended.votes : VoteResume(s)
  \/ \E c \in Chats : EndGameSuspended(c)

SpecConcurrent == Init /\ [][NextConcurrent]_vars

\* The same as Next with /done messages that carry a description.
NextDescribed ==
  \/ Next
  \/ \E c \in Chats, u \in Users : DoneTurnDescribed(c, u)

SpecDescribed == Init /\ [][NextDescribed]_vars

\* Games of five and of seven participants under automatic distribution.
NextLarge ==
  \/ \E c \in Chats, u \in LargeUsers : StartGameLarge(c, u)
  \/ \E c \in Chats, u \in LargeUsers : DoneTurn(c, u)
  \/ \E c \in Chats : NextPlayer(c)
  \/ \E c \in Chats, u \in LargeUsers, t \in LargeUsers : VoteLarge(c, u, t)
  \/ \E u \in LargeUsers, text \in GuessTexts : HandleMrWhiteGuess(u, text)

SpecLarge == InitLarge /\ [][NextLarge]_vars

\* ------------------------------------------------------------------ claims
\* Vocabulary of the claims, stated on the game record alone.
Eliminated(g) == {p \in DOMAIN g.players : g.players[p].eliminated}
Living(g) == {p \in DOMAIN g.players : ~g.players[p].eliminated}
LivingOf(g, role) == {p \in Living(g) : g.players[p].role = role}
CurrentOf(g) == g.turn_order[g.current_turn_idx + 1]
SlotOf(g, p) == CHOOSE i \in DOMAIN g.turn_order : g.turn_order[i] = p
\* The player k slots after slot i (1-based) of the turn order, circularly.
After(g, i, k) == g.turn_order[((i - 1 + k) % Len(g.turn_order)) + 1]
\* The first living player after player p in the turn order, circularly.
FirstLivingAfter(g, p) ==
  LET ks == {k \in 1..Len(g.turn_order) : After(g, SlotOf(g, p), k) \in Living(g)}
  IN After(g, SlotOf(g, p), CHOOSE k \in ks : \A j \in ks : k <= j)
FlagsReset(g) ==
  \A q \in DOMAIN g.players :
    /\ ~g.players[q].has_spoken
    /\ ~g.players[q].has_voted
    /\ g.players[q].vote_target = NoneId

\* C1: when a vote resolution eliminates a participant whose role is not
\* Blank, no faction has won and the two-player Blank endgame does not apply,
\* round preparation runs to completion: every participant's flags are reset,
\* roundNumber is one more, the state is Playing and the current participant
\* is the first living participant after the eliminated one in turnOrder.
C1_RoundPrepared ==
  [][\A c \in Chats : \A p \in Users :
       ( /\ In(c) /\ games[c].state = VOTING
         /\ p \in Living(games[c])
         /\ games'[c] # NoGame
         /\ p \in Eliminated(games'[c])
         /\ games[c].players[p].role # MR_WHITE
         /\ ev'.winner = NoRole
         /\ games'[c].state # MR_WHITE_GUESSING )
       => /\ FlagsReset(games'[c])
          /\ games'[c].round_number = games[c].round_number + 1
          /\ games'[c].state = PLAYING
          /\ CurrentOf(games'[c]) = FirstLivingAfter(games'[c], p)]_vars

\* The living participants of g who have not spoken, other than cur.
Waiting(g, cur) == {q \in Living(g) : ~g.players[q].has_spoken} \ {cur}
\* The first member of the set S after player p in the turn order, circularly.
FirstAfterIn(g, p, S) ==
  LET ks == {k \in 1..Len(g.turn_order) : After(g, SlotOf(g, p), k) \in S}
  IN After(g, SlotOf(g, p), CHOOSE k \in ks : \A j \in ks : k <= j)

\* C2: round-robin.  In a Playing state whose current participant is living,
\* a turn advance (the done and next commands) marks exactly the current
\* participant as spoken and leaves the turn order alone; if living
\* participants who have not spoken remain, the state stays Playing and the
\* new current participant is the first of them after the old one in circular
\* turn order (eliminated and already-spoken participants are skipped);
\* otherwise, and only then, the state becomes Voting.
C2_RoundRobin ==
  [][\A c \in Chats :
       ( /\ In(c) /\ games[c].state = PLAYING
         /\ CurrentOf(games[c]) \in Living(games[c])
         /\ ev'.op \in {"done", "next"} )
       => LET g == games[c]
              h == games'[c]
              cur == CurrentOf(g)
          IN /\ h.players[cur].has_spoken
             /\ \A q \in DOMAIN g.players \ {cur} : h.players[q] = g.players[q]
             /\ h.turn_order = g.turn_order
             /\ IF Waiting(g, cur) = {}
                THEN h.state = VOTING
                ELSE /\ h.state = PLAYING
                     /\ CurrentOf(h) = FirstAfterIn(g, cur, Waiting(g, cur))]_vars

\* C2 witness: a turn advance has just skipped an eliminated participant.
C2_Witness ==
  \E c \in Chats :
    /\ In(c) /\ games[c].state = PLAYING
    /\ ev.op \in {"done", "next"}
    /\ games[c].current_turn_idx >= 1
    /\ games[c].turn_order[games[c].current_turn_idx] \in Eliminated(games[c])

\* The votes of living participants that name target t.
Tally(g, t) ==
  Cardinality({v \in Living(g) : g.players[v].has_voted /\ g.players[v].vote_target = t})
\* The targets that hold the maximum of the tally.
MaxHolders(g) ==
  {t \in DOMAIN g.players : Tally(g, t) >= 1 /\ \A x \in DOMAIN g.players : Tally(g, x) <= Tally(g, t)}
\* The outcomes of the tiebreak draw of resolve_votes.
Picks(g) == IF MaxVotePlayers(g) = {} THEN {NoneId} ELSE MaxVotePlayers(g)

\* The games on which resolve_votes can be called while chat c is in Voting:
\* the game as it stands and the game after each vote that can be cast next
\* (the vote command resolves the round in the same step as the last vote).
Profiles(c) ==
  {games[c]} \cup {CastVote(games[c], v, t).g : v \in Users, t \in Users}

\* C3: resolve_votes called in Voting when exactly one target holds the
\* maximum number of votes of living participants eliminates exactly that
\* target and nobody else.
C3_UniqueMaxEliminated ==
  \A c \in Chats :
    (In(c) /\ games[c].state = VOTING)
    => \A g \in Profiles(c) :
         Cardinality(MaxHolders(g)) = 1
         => \A pick \in Picks(g) :
              Eliminated(ResolveVotes(g, pick).g) = Eliminated(g) \cup MaxHolders(g)

\* C3 witness: under tiebreak none (where only a unique maximum eliminates)
\* the vote command has just resolved a round by eliminating a participant.
C3_Witness ==
  \E c \in Chats :
    /\ In(c) /\ games[c].settings.tiebreaker = "none"
    /\ ev.op = "vote" /\ ev.ret \in Eliminated(games[c])

\* C4: when two or more targets tie for the maximum, resolve_votes with
\* tiebreak none eliminates no one, and with tiebreak random eliminates
\* exactly one participant, one of the tied maximum-holders.
C4_TieBreak ==
  \A c \in Chats :
    (In(c) /\ games[c].state = VOTING)
    => \A g \in Profiles(c) :
         Cardinality(MaxHolders(g)) >= 2
         => \A pick \in Picks(g) :
              LET new == Eliminated(ResolveVotes(g, pick).g) \ Eliminated(g)
              IN IF g.settings.tiebreaker = "none"
                 THEN new = {} /\ ResolveVotes(g, pick).ret = NoneId
                 ELSE Cardinality(new) = 1 /\ new \subseteq MaxHolders(g)

\* C4 witness: the vote command has just resolved a tied round under the
\* random tiebreak by eliminating one of the tied targets (a Mr. White, so the
\* votes are still on record).
C4_Witness ==
  \E c \in Chats :
    /\ In(c) /\ games[c].state = MR_WHITE_GUESSING
    /\ games[c].settings.tiebreaker = "random"
    /\ ev.op = "vote" /\ ev.ret \in Eliminated(games[c])
    /\ LET before == SetPlayer(games[c], ev.ret, "eliminated", FALSE)
       IN Cardinality(MaxHolders(before)) >= 2 /\ ev.ret \in MaxHolders(before)


\* The precondition of a vote of v for t.
CanVote(g, v, t) ==
  /\ g.state = VOTING
  /\ v \in DOMAIN g.players /\ t \in DOMAIN g.players
  /\ v \in Living(g) /\ t \in Living(g)
  /\ ~g.players[v].has_voted

\* C5: cast_vote(voter, target) succeeds only if the state is Voting, voter
\* and target are both known living participants and the voter has not voted
\* this round; it then records the vote and nothing else.  In every other
\* case it returns failure and changes nothing, so a second vote of the same
\* voter fails and leaves the recorded voteTarget intact.
C5_CastVoteGuarded ==
  \A c \in Chats :
    In(c) =>
      \A v \in Users \cup {NoneId}, t \in Users \cup {NoneId} :
        LET g == games[c]
            r == CastVote(g, v, t)
        IN /\ r.ret <=> CanVote(g, v, t)
           /\ ~r.ret => r.g = g
           /\ r.ret => r.g = [g EXCEPT !.players[v].has_voted = TRUE,
                                       !.players[v].vote_target = t]
           /\ ~r.err

\* C5 witness: a round of voting in which a vote is on record, a participant
\* is eliminated and the vote command has just recorded a vote: further
\* cast_vote calls meet each of the failure cases.
C5_Witness ==
  \E c \in Chats :
    /\ In(c) /\ games[c].state = VOTING
    /\ ev.op = "vote" /\ ev.ret = -1
    /\ Eliminated(games[c]) # {}
    /\ \E v \in Living(games[c]) :
         games[c].players[v].has_voted /\ games[c].players[v].vote_target \in Living(games[c]) \ {v}

\* C6: check_win_condition is this function of the living counts A (Aligned),
\* O (Outlier), B (Blank): if B = 1 and A + O = 1 it sets the state to
\* MrWhiteGuessing and reports no winner; otherwise if A = 0 or O + B >= A it
\* reports Outlier; otherwise if O = 0 and B = 0 it reports Aligned; otherwise
\* it reports no winner and leaves the state unchanged.  The state is
\* GameOver afterwards exactly when a winner is reported, and nothing but the
\* state changes.
C6_WinCondition ==
  \A c \in Chats :
    In(c) =>
      LET g == games[c]
          A == Cardinality(LivingOf(g, CIVILIAN))
          O == Cardinality(LivingOf(g, UNDERCOVER))
          B == Cardinality(LivingOf(g, MR_WHITE))
          r == CheckWinCondition(g)
      IN /\ IF B = 1 /\ A + O = 1
            THEN r.ret = NoRole /\ r.g = [g EXCEPT !.state = MR_WHITE_GUESSING]
            ELSE IF A = 0 \/ O + B >= A
            THEN r.ret = UNDERCOVER /\ r.g = [g EXCEPT !.state = GAME_OVER]
            ELSE IF O = 0 /\ B = 0
            THEN r.ret = CIVILIAN /\ r.g = [g EXCEPT !.state = GAME_OVER]
            ELSE r.ret = NoRole /\ r.g = g
         /\ r.g.state = GAME_OVER <=> r.ret # NoRole
         /\ ~r.err

\* C6 witness: the vote command has just ended a game with the Aligned
\* faction as the winner check_win_condition reported.
C6_Witness ==
  \E c \in Chats : ~In(c) /\ ev.op = "vote" /\ ev.winner = CIVILIAN

\* C7: when resolve_votes eliminates a participant whose role is Blank, the
\* state becomes MrWhiteGuessing and no round advancement happens: apart from
\* the vote just cast, the elimination and the state, the game is as it was
\* (roundNumber, currentTurnIndex, every hasSpoken / hasVoted / voteTarget),
\* and it stays so until a guess is resolved or the game is ended.
C7_BlankEliminatedHolds ==
  [][\A c \in Chats :
       /\ \A p \in Users :
            ( /\ In(c) /\ games[c].state = VOTING
              /\ p \in Living(games[c])
              /\ games[c].players[p].role = MR_WHITE
              /\ games'[c] # NoGame
              /\ p \in Eliminated(games'[c]) )
            => \E u \in Living(games[c]), t \in Living(games[c]) :
                 /\ ~games[c].players[u].has_voted
                 /\ games'[c] =
                      [[games[c] EXCEPT !.players[u].has_voted = TRUE,
                                        !.players[u].vote_target = t]
                         EXCEPT !.players[p].eliminated = TRUE,
                                !.state = MR_WHITE_GUESSING]
       /\ ( /\ In(c) /\ games[c].state = MR_WHITE_GUESSING
            /\ games'[c] # games[c] )
          => ev'.op \in {"guess", "end"}]_vars

\* C7 witness: the vote command has just eliminated a Blank participant in
\* the first round; the flags of the round are still set.
C7_Witness ==
  \E c \in Chats :
    /\ In(c) /\ games[c].state = MR_WHITE_GUESSING
    /\ ev.op = "vote"
    /\ ev.ret \in Eliminated(games[c])
    /\ games[c].players[ev.ret].role = MR_WHITE
    /\ games[c].round_number = 1
    /\ \A q \in Living(games[c]) : games[c].players[q].has_spoken /\ games[c].players[q].has_voted

\* The guess carried by a message text matches the word w.
Matches(text, w) == Lower(Strip(text)) = Lower(w)

\* C8: a correct guess of the participant registered for the guess, while the
\* session is in MrWhiteGuessing, ends the game with the Blank faction as the
\* winner whatever the living role counts are: the game-over routine runs
\* with Blank as winner and the session is removed from the registry.
C8_CorrectGuessWins ==
  [][\A c \in Chats : \A u \in Users :
       ( /\ active_mr_white_guesses[u] = c
         /\ In(c) /\ games[c].state = MR_WHITE_GUESSING
         /\ ev'.op = "guess"
         /\ active_mr_white_guesses'[u] = 0
         /\ Matches(ev'.arg, games[c].civilian_word) )
       => /\ games'[c] = NoGame
          /\ ev'.winner = MR_WHITE
          /\ ~ev'.raised]_vars

\* C8 witness: a guess written in another case than the civilian word, with
\* a leading blank, has just ended the game with Blank as the winner.
C8_Witness ==
  \E c \in Chats :
    /\ ~In(c)
    /\ ev.op = "guess" /\ ev.winner = MR_WHITE
    /\ ev.arg # WordMe /\ Matches(ev.arg, WordMe)

\* C9: after an incorrect guess in MrWhiteGuessing the guessing participant
\* is eliminated and play resumes: the guess command ends either with the
\* game over (the session removed) or in Playing with a living current
\* participant.
C9_PlayResumes ==
  [][\A c \in Chats : \A u \in Users :
       ( /\ active_mr_white_guesses[u] = c
         /\ In(c) /\ games[c].state = MR_WHITE_GUESSING
         /\ ev'.op = "guess"
         /\ active_mr_white_guesses'[u] = 0
         /\ ~Matches(ev'.arg, games[c].civilian_word) )
       => \/ games'[c] = NoGame
          \/ /\ games'[c].state = PLAYING
             /\ u \in Eliminated(games'[c])
             /\ CurrentOf(games'[c]) \in Living(games'[c])]_vars

\* A vote step of chat c that eliminates participant p.
Eliminates(c, p) ==
  /\ In(c) /\ games[c].state = VOTING
  /\ ev'.op = "vote"
  /\ p \in Living(games[c])
  /\ games'[c] # NoGame
  /\ p \in Eliminated(games'[c])

\* The guess is forced for a living Blank participant of chat c.
ForcedForLivingBlank(c) ==
  /\ games'[c].state = MR_WHITE_GUESSING
  /\ ev'.ret \in LivingOf(games'[c], MR_WHITE)
  /\ active_mr_white_guesses'[ev'.ret] = c

\* C10 as stated: after any elimination by resolve_votes that leaves exactly
\* two living participants of whom one is Blank, the state is forced to
\* MrWhiteGuessing for that living Blank participant.
C10_ForcedEndgame ==
  [][\A c \in Chats : \A p \in Users :
       ( /\ Eliminates(c, p)
         /\ Cardinality(Living(games'[c])) = 2
         /\ LivingOf(games'[c], MR_WHITE) # {} )
       => ForcedForLivingBlank(c)]_vars

\* C10 amended: after an elimination by resolve_votes of a participant who is
\* not Blank that leaves exactly two living participants of whom one is
\* Blank, the state is forced to MrWhiteGuessing for that living Blank
\* participant; when the eliminated participant is Blank the state is
\* MrWhiteGuessing for the eliminated participant.  In neither case is a new
\* round prepared or a winner declared.
C10_ForcedEndgameNonBlank ==
  [][\A c \in Chats :
       /\ \A p \in Users :
            ( /\ Eliminates(c, p)
              /\ Cardinality(Living(games'[c])) = 2
              /\ LivingOf(games'[c], MR_WHITE) # {} )
            => /\ games'[c].state = MR_WHITE_GUESSING
               /\ games'[c].round_number = games[c].round_number
               /\ IF games[c].players[p].role # MR_WHITE
                  THEN ForcedForLivingBlank(c)
                  ELSE ev'.ret = p /\ active_mr_white_guesses'[p] = c
       /\ ( /\ In(c) /\ games[c].state = VOTING
            /\ Cardinality(Living(games[c])) = 3
            /\ LivingOf(games[c], MR_WHITE) # {}
            /\ ev'.op = "vote" /\ ev'.ret >= 1 )
          => /\ games'[c] # NoGame
             /\ ev'.winner = NoRole]_vars

\* C10 witness: the vote command has just eliminated a participant who is not
\* Blank, two participants are left, and the guess is registered for the
\* living Blank one.
C10_Witness ==
  \E c \in Chats :
    /\ In(c) /\ games[c].state = MR_WHITE_GUESSING
    /\ ev.op = "vote"
    /\ Cardinality(Living(games[c])) = 2
    /\ ev.ret \in LivingOf(games[c], MR_WHITE)
    /\ active_mr_white_guesses[ev.ret] = c

\* The participants of g holding the given role, living or not.
WithRole(g, role) == {p \in DOMAIN g.players : g.players[p].role = role}
\* The game has been started.
Started(g) == g # NoGame /\ g.state # WAITING_FOR_PLAYERS
\* The table of the automatic distribution: A Aligned, O Outlier, B Blank
\* among n participants.
Table(n, A, O, B) ==
  IF n = 3 THEN A = 2 /\ O + B = 1
  ELSE IF n = 4 THEN A = 2 /\ O = 1 /\ B = 1
  ELSE IF n <= 6 THEN A = n - 3 /\ O = 2 /\ B = 1
  ELSE A = n - 4 /\ O = 2 /\ B = 2
\* The positions 1..n that the assignment loops of start_game give the role,
\* under the automatic counts for n participants.
DealtAt(n, coin, role) ==
  {i \in 1..n : RoleAt(RoleCounts(DefaultSettings, n, coin), n, i) = role}

\* C11: after a successful start_game with automatic distribution (all
\* counts left at 0) and n participants, the numbers of Aligned, Outlier and
\* Blank participants sum to n and equal the table: n = 3 gives 2 Aligned and
\* one non-Aligned, n = 4 gives 2/1/1, n in 5..6 gives n-3/2/1, n >= 7 gives
\* n-4/2/2.  Checked on every started game of the model and, for the n beyond
\* the model's sessions, on the counts and the assignment loops themselves.
C11_AutoDistribution ==
  /\ \A c \in Chats :
       (Started(games[c]) /\ chat_settings[c].civilian_count = 0)
       => LET g == games[c]
              n == Cardinality(DOMAIN g.players)
              A == Cardinality(WithRole(g, CIVILIAN))
              O == Cardinality(WithRole(g, UNDERCOVER))
              B == Cardinality(WithRole(g, MR_WHITE))
          IN /\ A + O + B = n
             /\ Table(n, A, O, B)
             /\ g.settings.civilian_count = A
             /\ g.settings.undercover_count = O
             /\ g.settings.mr_white_count = B
  /\ \A n \in 3..MaxTablePlayers, coin \in BOOLEAN :
       LET A == Cardinality(DealtAt(n, coin, CIVILIAN))
           O == Cardinality(DealtAt(n, coin, UNDERCOVER))
           B == Cardinality(DealtAt(n, coin, MR_WHITE))
       IN A + O + B = n /\ Table(n, A, O, B)

\* C11 witness: a game of four participants has just been started with the
\* counts left to the automatic distribution.
C11_Witness ==
  \E c \in Chats :
    /\ Started(games[c]) /\ ev.op = "start"
    /\ chat_settings[c].civilian_count = 0
    /\ Cardinality(DOMAIN games[c].players) = 4
    /\ Cardinality(WithRole(games[c], MR_WHITE)) = 1

\* C12: in every state after a successful start_game each participant has
\* exactly one of the three roles, and a participant's word is the aligned
\* word iff the role is Aligned, the outlier word iff the role is Outlier,
\* and absent iff the role is Blank.
C12_RoleAndWord ==
  \A c \in Chats :
    Started(games[c])
    => LET g == games[c]
       IN /\ g.civilian_word # NoWord /\ g.undercover_word # NoWord
          /\ g.civilian_word # g.undercover_word
          /\ \A p \in DOMAIN g.players :
               /\ g.players[p].role \in {CIVILIAN, UNDERCOVER, MR_WHITE}
               /\ g.players[p].word = g.civilian_word <=> g.players[p].role = CIVILIAN
               /\ g.players[p].word = g.undercover_word <=> g.players[p].role = UNDERCOVER
               /\ g.players[p].word = NoWord <=> g.players[p].role = MR_WHITE

\* C12 witness: a started game in which all three roles are held, a round
\* later than the first.
C12_Witness ==
  \E c \in Chats :
    /\ Started(games[c])
    /\ games[c].round_number >= 2
    /\ \A role \in {CIVILIAN, UNDERCOVER, MR_WHITE} : WithRole(games[c], role) # {}

\* The sequence s lists every member of S exactly once.
IsPermutation(s, S) ==
  /\ Len(s) = Cardinality(S)
  /\ \A x \in S : \E i \in DOMAIN s : s[i] = x
  /\ \A i \in DOMAIN s : s[i] \in S

\* C13: in every state reachable after start_game turnOrder is a permutation
\* of the session's participant ids as they were at start, and no later
\* operation changes the participant ids or the contents, order or length of
\* turnOrder.
C13_TurnOrderFixed ==
  [][\A c \in Chats :
       /\ Started(games'[c])
          => IsPermutation(games'[c].turn_order, DOMAIN games'[c].players)
       /\ (Started(games[c]) /\ games'[c] # NoGame)
          => /\ games'[c].turn_order = games[c].turn_order
             /\ DOMAIN games'[c].players = DOMAIN games[c].players
             /\ games'[c].player_keys = games[c].player_keys]_vars

\* C13 witness: play has resumed after an elimination and a guess, in a game
\* whose turn order was reordered at start (it differs from the shuffle's
\* outcome, the join order).
C13_Witness ==
  \E c \in Chats :
    /\ Started(games[c]) /\ games[c].state = PLAYING
    /\ ev.op = "guess"
    /\ Eliminated(games[c]) # {}
    /\ games[c].round_number >= 2
    /\ games[c].turn_order # games[c].player_keys

\* The outcomes of the random draws of start_game for a game of n players.
Draws(n) ==
  [coin : BOOLEAN, pair : {PAIR}, player_ids : RoleShuffles(n), order : TurnShuffles(n)]

\* C14: start_game fails and leaves the session (state, roles, words,
\* turnOrder, settings) unchanged unless the state is WaitingForPlayers, there
\* are at least 3 participants and the word-pair source is non-empty; when it
\* succeeds the session is in Playing.
C14_StartGuarded ==
  \A c \in Chats :
    In(c) =>
      \A u \in Users, d \in Draws(Len(games[c].player_keys)) :
        LET g == games[c]
            r == StartGameCommand(g, u, d.coin, d.pair, d.player_ids, d.order)
        IN /\ ( \/ g.state # WAITING_FOR_PLAYERS
                \/ Cardinality(DOMAIN g.players) < 3
                \/ pairs = <<>> )
              => (~r.ret /\ r.g = g)
           /\ ~r.ret => r.g = g
           /\ r.ret => r.g.state = PLAYING

\* C14 witness: three participants wait in a session whose creator's start
\* command can fail for one reason only, the empty word-pair source.
C14_Witness ==
  \E c \in Chats :
    /\ In(c) /\ games[c].state = WAITING_FOR_PLAYERS
    /\ Len(games[c].player_keys) = 3
    /\ games[c].settings.civilian_count = 0
    /\ pairs = <<>>

\* Games g and h have the same participants with the same role, word and
\* eliminated flag.
SameCast(g, h) ==
  /\ DOMAIN h.players = DOMAIN g.players
  /\ \A p \in DOMAIN g.players :
       /\ h.players[p].role = g.players[p].role
       /\ h.players[p].word = g.players[p].word
       /\ h.players[p].eliminated = g.players[p].eliminated

\* C15: once a session has reached GameOver no further operation changes any
\* participant's role, word or eliminated flag: no command that keeps the
\* session changes them, and start_game, next_turn, cast_vote and
\* resolve_votes applied to the session leave it as it is.
C15_GameOverFrozen ==
  [][\A c \in Chats :
       (In(c) /\ games[c].state = GAME_OVER)
       => /\ games'[c] # NoGame => SameCast(games[c], games'[c])
          /\ \A u \in Users, d \in Draws(Len(games[c].player_keys)) :
               SameCast(games[c],
                        StartGameCommand(games[c], u, d.coin, d.pair, d.player_ids, d.order).g)
          /\ SameCast(games[c], NextTurn(games[c]).g)
          /\ \A v \in Users, x \in Users :
               /\ SameCast(games[c], CastVote(games[c], v, x).g)
               /\ SameCast(games[c], ResolveVotes(games[c], x).g)]_vars

\* C15 witness: a session is registered in GameOver (left there by the vote
\* command) with participants of whom none is eliminated.
C15_Witness ==
  \E c \in Chats :
    /\ In(c) /\ games[c].state = GAME_OVER
    /\ ev.op = "vote"
    /\ WithRole(games[c], MR_WHITE) # {}

\* C16: whenever a session's state becomes GameOver through win resolution the
\* session is removed from the registry by the end of the same command: between
\* commands no registered session is in GameOver.
C16_GameOverRemoved ==
  \A c \in Chats : In(c) => games[c].state # GAME_OVER

\* The events left by a private text message that found a pending guess.
GuessOps == {"guess", "guess_invalid"}

Messages(c) ==
  IF ev'.op = "start"
    THEN {GenerateRoleMessage(games'[c], p) : p \in Ids(games'[c])}
  ELSE IF ev'.op = "vote" /\ ev'.ret \in Users
    THEN {GenerateEliminationMessage(games[c], ev'.ret)}
         \cup (IF games'[c] # NoGame /\ games'[c].state = MR_WHITE_GUESSING
               THEN {GenerateMrWhiteGuessingMessage(games[c], ev'.ret)} ELSE {})
  ELSE IF ev'.op = "guess"
    THEN {GuessGroupMessage(games[c], u, ev'.ret = 1) :
            u \in {v \in Users : active_mr_white_guesses[v] = c
                                 /\ active_mr_white_guesses'[v] = 0}}
  ELSE IF ev'.op = "end" THEN EndGameSummary(games[c])
  ELSE {}

\* Message m names a role or a word to nobody but the participant it is about.
Discreet(m) ==
  \/ ~m.group /\ m.to = m.about
  \/ m.role = NoRole /\ m.word = NoWord

\* C18: before the session reaches GameOver no participant's role or word is
\* exposed to the group or to any participant other than that participant:
\* every message of a command on a session that is not in GameOver is
\* discreet.
C18_NothingExposed ==
  [][\A c \in Chats :
       (In(c) /\ games[c].state # GAME_OVER)
       => \A m \in Messages(c) : Discreet(m)]_vars

\* C18, amended: before GameOver a message names a role or a word to others
\* than its participant only in three cases: the vote command names to the
\* group the role (never the word) of the participant resolve_votes returned,
\* who is the participant just eliminated or, in the forced two-player
\* endgame, the living Mr. White; the group message of a correct guess repeats
\* the word in the command that ends the session; and /endgame names every
\* role and both words while it removes the session.
C18_OnlyEliminatedExposed ==
  [][\A c \in Chats :
       (In(c) /\ games[c].state # GAME_OVER)
       => \A m \in Messages(c) :
            \/ Discreet(m)
            \/ /\ ev'.op = "vote" /\ m.about = ev'.ret /\ m.word = NoWord
               /\ ~games[c].players[m.about].eliminated
               /\ games'[c] # NoGame
                  => \/ games'[c].players[m.about].eliminated
                     \/ /\ games'[c].state = MR_WHITE_GUESSING
                        /\ games'[c].players[m.about].role = MR_WHITE
                        /\ Cardinality(Alive(games'[c])) = 2
            \/ ev'.op = "guess" /\ ev'.ret = 1 /\ games'[c] = NoGame
            \/ ev'.op = "end" /\ games'[c] = NoGame]_vars

\* C18 witness: the vote command has eliminated a participant, whose role its
\* elimination message named, and the session goes on.
C18_Witness ==
  \E c \in Chats :
    /\ In(c) /\ games[c].state \in {VOTING, MR_WHITE_GUESSING, PLAYING}
    /\ ev.op = "vote" /\ ev.ret \in Users
    /\ games[c].players[ev.ret].eliminated
    /\ \E p \in Ids(games[c]) : p # ev.ret /\ games[c].players[p].eliminated

\* What the vote command of user_id for target_id leaves in session c and in
\* the registry when every delivery succeeds, for each outcome of the tiebreak
\* draw.
VoteOutcomes(c, user_id, target_id) ==
  LET cv == CastVote(games[c], user_id, target_id)
  IN IF ~AllPlayersVoted(cv.g)
     THEN {[g |-> cv.g, reg |-> active_mr_white_guesses]}
     ELSE {LET r == VoteResolve(c, cv.g, pick)
           IN [g |-> r.g,
               reg |-> IF r.guess # NoneId
                       THEN [active_mr_white_guesses EXCEPT ![r.guess] = c]
                       ELSE active_mr_white_guesses] :
           pick \in MaxVotePlayers(cv.g)}

\* C19: if delivery of an outgoing message fails during the vote command or
\* the guess handler, the session and the registry end up as they would have
\* had delivery succeeded: a vote whose reply fails leaves what the vote
\* command leaves for some outcome of the draw (a round in which every living
\* participant has voted is resolved), and a guess whose reply fails leaves
\* the guess removed and resolved (its participant cannot guess again).
C19_DeliveryFailureHarmless ==
  [][/\ \A c \in Chats, u \in Users, t \in Users :
          VoteReplyFails(c, u, t)
          => \E o \in VoteOutcomes(c, u, t) :
               /\ games'[c] = o.g
               /\ active_mr_white_guesses' = o.reg
     /\ \A u \in Users, text \in GuessTexts :
          GuessReplyFails(u, text)
          => /\ active_mr_white_guesses'[u] = 0
             /\ games'[active_mr_white_guesses[u]] =
                  GuessResolve(games[active_mr_white_guesses[u]], Strip(text)).g]_vars

\* The step is a vote command that resolved a tied round of session c under
\* tiebreak none: resolve_votes returned no one.
TieUnresolved(c) ==
  /\ In(c) /\ games[c].state = VOTING
  /\ games[c].settings.tiebreaker = "none"
  /\ ev'.op = "vote" /\ ev'.ret = NoneId

\* C20: under tiebreak none, when the vote command resolves a round whose
\* maximum is tied, no participant is eliminated, all votes are cleared,
\* roundNumber is unchanged and the round is replayed: the session stays
\* registered and is in Playing.
C20_TieReplaysRound ==
  [][\A c \in Chats :
       TieUnresolved(c)
       => /\ games'[c] # NoGame
          /\ Eliminated(games'[c]) = Eliminated(games[c])
          /\ \A p \in DOMAIN games'[c].players :
               /\ ~games'[c].players[p].has_voted
               /\ games'[c].players[p].vote_target = NoneId
          /\ games'[c].round_number = games[c].round_number
          /\ games'[c].state = PLAYING]_vars


\* What add_player and the join command do to session c, for every user.
AddPlayerGuarded(c) ==
  \A u \in Users :
    LET g == games[c]
        a == AddPlayer(g, u)
        j == JoinGameCommand(g, u)
    IN /\ u \in DOMAIN g.players => (~a.ret /\ a.g = g)
       /\ u \notin DOMAIN g.players
          => /\ a.ret
             /\ DOMAIN a.g.players = DOMAIN g.players \cup {u}
             /\ a.g.players[u].role = NoRole /\ a.g.players[u].word = NoWord
             /\ ~a.g.players[u].eliminated /\ ~a.g.players[u].has_spoken
             /\ ~a.g.players[u].has_voted
             /\ \A p \in DOMAIN g.players : a.g.players[p] = g.players[p]
             /\ [a.g EXCEPT !.players = g.players, !.player_keys = g.player_keys] = g
       /\ g.state # WAITING_FOR_PLAYERS => (~j.ret /\ j.g = g)
       /\ g.state = WAITING_FOR_PLAYERS => j = a

\* C21: add_player for an id already in the roster returns failure and leaves
\* the roster unchanged; otherwise it inserts a participant with no role, no
\* word, not eliminated, not spoken and not voted.  A join in any state other
\* than WaitingForPlayers is rejected and changes nothing, and the roster of a
\* registered session changes only while it is WaitingForPlayers.
C21_AddPlayerGuarded ==
  [][\A c \in Chats :
       /\ In(c) => AddPlayerGuarded(c)
       /\ (games'[c] # NoGame) => AddPlayerGuarded(c)'
       /\ (In(c) /\ games'[c] # NoGame
             /\ DOMAIN games'[c].players # DOMAIN games[c].players)
          => /\ games[c].state = WAITING_FOR_PLAYERS
             /\ games'[c].state = WAITING_FOR_PLAYERS
             /\ ev'.op = "join"]_vars

\* C21 witness: a started session of three, with a user outside the roster who
\* could join were the session still waiting.
C21_Witness ==
  \E c \in Chats :
    /\ In(c) /\ games[c].state = PLAYING
    /\ Len(games[c].player_keys) = 3
    /\ \E u \in Users : u \notin DOMAIN games[c].players

\* C22: the registry holds at most one session per chat identifier: a new-game
\* command for an identifier that already has a registered session, in any
\* state, is rejected and leaves the session and its roster unchanged; a
\* session is created only for an identifier that has none.
C22_OneSessionPerChat ==
  [][\A c \in Chats :
       /\ (games'[c] # NoGame)
          => \A u \in Users :
               LET r == NewGameCommand(games'[c], chat_settings'[c], u)
               IN ~r.ret /\ r.g = games'[c]
       /\ ev'.op = "newgame"
          => /\ \E d \in Chats : games[d] = NoGame /\ games'[d] # NoGame
             /\ In(c) => games'[c] = games[c]]_vars

\* C22 witness: a session is registered in GameOver (a new-game command for
\* its chat is rejected there too).
C22_Witness ==
  \E c \in Chats :
    /\ In(c) /\ games[c].state = GAME_OVER
    /\ Len(games[c].player_keys) >= 3
    /\ \E p \in Ids(games[c]) : games[c].players[p].role = CIVILIAN

\* The edges of the session state machine.
Edges ==
  {<<WAITING_FOR_PLAYERS, PLAYING>>, <<PLAYING, VOTING>>, <<VOTING, PLAYING>>,
   <<VOTING, MR_WHITE_GUESSING>>, <<VOTING, GAME_OVER>>,
   <<MR_WHITE_GUESSING, GAME_OVER>>, <<MR_WHITE_GUESSING, PLAYING>>}

\* C23: every change of a session's state follows one of the edges
\* WaitingForPlayers->Playing, Playing->Voting, Voting->Playing,
\* Voting->MrWhiteGuessing, Voting->GameOver, MrWhiteGuessing->GameOver,
\* MrWhiteGuessing->Playing: a command that leaves the session registered
\* leaves its state or moves it along an edge, and a new session starts in
\* WaitingForPlayers.
C23_StateEdges ==
  [][\A c \in Chats :
       /\ (In(c) /\ games'[c] # NoGame /\ games'[c].state # games[c].state)
          => <<games[c].state, games'[c].state>> \in Edges
       /\ (~In(c) /\ games'[c] # NoGame)
          => games'[c].state = WAITING_FOR_PLAYERS]_vars

\* C23 witness: a wrong guess has moved a session from MrWhiteGuessing back
\* to Playing.
C23_Witness ==
  \E c \in Chats :
    /\ In(c) /\ games[c].state = PLAYING
    /\ ev.op = "guess"
    /\ Eliminated(games[c]) # {}

\* C24: get_current_player_id and next_turn terminate in every reachable
\* state, also when the participant at currentTurnIndex is eliminated: on no
\* registered session do the two functions recurse into each other without
\* end.
C24_TurnFunctionsTerminate ==
  \A c \in Chats :
    In(c) => /\ ~GetCurrentPlayerId(games[c]).err
             /\ ~NextTurn(games[c]).err

\* The games in which a resolution of the round of session c ends in GameOver:
\* the game check_win_condition leaves after the last vote of the round, for
\* every last voter, target and outcome of the tiebreak draw.
EndedByVote(c) ==
  {cw.g : cw \in
     {CheckWinCondition(rv.g) : rv \in
        {r \in UNION {{ResolveVotes(cv.g, pick) : pick \in MaxVotePlayers(cv.g)} :
                        cv \in {x \in {CastVote(games[c], u, t) : u \in Users, t \in Users} :
                                  x.ret /\ AllPlayersVoted(x.g)}} :
           r.ret # NoneId /\ r.g.state # MR_WHITE_GUESSING}}}

\* C25: roundNumber is 1 immediately after start_game; it changes only when a
\* vote or a guess is resolved, by one, and it is incremented when voting
\* completes without ending the game (by the vote that eliminates another
\* role, or else by the wrong guess that follows); a vote resolution or guess
\* resolution that ends the game in GameOver does not increment it.
C25_RoundNumber ==
  [][\A c \in Chats :
       In(c) =>
         /\ ev'.op = "start" => games'[c].round_number = 1
         /\ (games'[c] # NoGame /\ games'[c].round_number # games[c].round_number)
            => /\ ev'.op \in {"start", "vote", "guess"}
               /\ ev'.op # "start"
                  => games'[c].round_number = games[c].round_number + 1
         /\ (games'[c] # NoGame /\ games[c].state # GAME_OVER
               /\ games'[c].state = GAME_OVER)
            => games'[c].round_number = games[c].round_number
         /\ (ev'.op = "vote" /\ ev'.ret \in Users /\ games'[c] # NoGame)
            => games'[c].round_number =
                 IF games'[c].state = MR_WHITE_GUESSING
                 THEN games[c].round_number ELSE games[c].round_number + 1
         /\ (ev'.op = "guess" /\ games'[c] # NoGame)
            => games'[c].round_number = games[c].round_number + 1
         /\ games[c].state = VOTING
            => \A h \in EndedByVote(c) :
                 h.state = GAME_OVER => h.round_number = games[c].round_number]_vars

Manual(settings) ==
  settings.civilian_count # 0 \/ settings.undercover_count # 0 \/ settings.mr_white_count # 0

\* C28: start_game uses the manual role counts as given whenever one of the
\* three is nonzero, and the automatic distribution only when all three are
\* zero: on every step that starts a game, with manual counts the numbers of
\* Aligned, Outlier and Blank participants are the three counts and the
\* settings are left as they were; without, the numbers are those of the
\* table and are written to the settings.
C28_ManualCountsUsed ==
  [][\A c \in Chats :
       (games[c].state = WAITING_FOR_PLAYERS /\ Started(games'[c]))
       => LET s == games[c].settings
              h == games'[c]
              n == Cardinality(DOMAIN h.players)
              A == Cardinality(WithRole(h, CIVILIAN))
              O == Cardinality(WithRole(h, UNDERCOVER))
              B == Cardinality(WithRole(h, MR_WHITE))
          IN /\ Manual(s) => /\ A = s.civilian_count
                              /\ O = s.undercover_count
                              /\ B = s.mr_white_count
                              /\ h.settings = s
             /\ ~Manual(s) => /\ Table(n, A, O, B)
                               /\ h.settings.civilian_count = A
                               /\ h.settings.undercover_count = O
                               /\ h.settings.mr_white_count = B
             /\ ~Table(n, A, O, B) => Manual(s)]_vars

\* C28 witness: a game of four participants has just been started with the
\* manual counts 2 Aligned, 0 Outlier, 2 Blank, which the automatic
\* distribution never yields, and two participants are Blank.
C28_Witness ==
  \E c \in Chats :
    /\ Started(games[c]) /\ ev.op = "start"
    /\ chat_settings[c].civilian_count = 2
    /\ chat_settings[c].undercover_count = 0
    /\ chat_settings[c].mr_white_count = 2
    /\ Cardinality(WithRole(games[c], MR_WHITE)) = 2
    /\ Cardinality(DOMAIN games[c].players) = 4

\* C29: when mr_white_start is false, after a successful start_game the
\* participant at the head of turn_order is not Blank and turn_order is a
\* permutation of the participant ids; the adjustment is a single swap with
\* the head.  Checked on every started game and, for the roles dealt in it,
\* on the adjustment of every order the shuffle can produce: the adjusted
\* order differs from the shuffled one nowhere or in exactly two positions,
\* the head and the position whose participant moved to the head.
C29_FirstNotBlank ==
  \A c \in Chats :
    Started(games[c])
    => LET g == games[c]
       IN /\ IsPermutation(g.turn_order, DOMAIN g.players)
          /\ ~g.settings.mr_white_start
             => g.players[g.turn_order[1]].role # MR_WHITE
          /\ \A order \in AllPerms[Len(g.player_keys)] :
               LET r == Reordered(g.settings, order, FirstNonWhite(g.players, order))
                   moved == {i \in DOMAIN order : r[i] # order[i]}
               IN /\ IsPermutation(r, DOMAIN g.players)
                  /\ ~g.settings.mr_white_start => g.players[r[1]].role # MR_WHITE
                  /\ Cardinality(moved) \in {0, 2}
                  /\ \A i \in moved : i = 1 \/ (r[1] = order[i] /\ r[i] = order[1])

\* C29 witness: a game has just been started with mr_white_start false, the
\* participant the shuffle put at the head is Blank, and another participant
\* heads the turn order.
C29_Witness ==
  \E c \in Chats :
    /\ Started(games[c]) /\ ev.op = "start"
    /\ ~games[c].settings.mr_white_start
    /\ games[c].players[games[c].player_keys[1]].role = MR_WHITE
    /\ games[c].turn_order[1] # games[c].player_keys[1]
    /\ games[c].players[games[c].turn_order[1]].role # MR_WHITE

\* The four requirements on role counts for n participants.
CountsValid(settings, n) ==
  /\ settings.civilian_count + settings.undercover_count + settings.mr_white_count = n
  /\ settings.civilian_count >= 1
  /\ settings.civilian_count > settings.undercover_count
  /\ settings.undercover_count + settings.mr_white_count >= 1

\* C30: a game started through the start command with a nonzero manual count
\* has counts that sum to the number of participants, at least one Aligned,
\* more Aligned than Outlier, and at least one Outlier or Blank; when one of
\* these fails, the start command is rejected whoever sends it and whatever
\* the draws, and the session stays as it is, in WaitingForPlayers with no
\* role assigned.  Every started game whose counts were set by hand (the
\* settings saved for the chat hold a nonzero count) has these counts and
\* they meet the four requirements.
C30_ManualCountsValidated ==
  \A c \in Chats :
    /\ (Started(games[c]) /\ Manual(chat_settings[c]))
       => /\ games[c].settings = chat_settings[c]
          /\ CountsValid(games[c].settings, Cardinality(DOMAIN games[c].players))
    /\ (In(c) /\ games[c].state = WAITING_FOR_PLAYERS /\ Manual(games[c].settings))
       => \A u \in Users, d \in Draws(Len(games[c].player_keys)) :
            LET g == games[c]
                n == Cardinality(DOMAIN g.players)
                r == StartGameCommand(g, u, d.coin, d.pair, d.player_ids, d.order)
            IN /\ r.ret => /\ CountsValid(g.settings, n)
                           /\ r.g.settings = g.settings
                           /\ r.g.state = PLAYING
               /\ ~CountsValid(g.settings, n)
                  => /\ ~r.ret
                     /\ r.g = g
                     /\ \A p \in DOMAIN g.players : g.players[p].role = NoRole

\* C30 witness: three participants wait with the word pairs loaded and the
\* manual counts 1/1/1, which sum to three but give no more Aligned than
\* Outlier: the creator's start command is rejected for that reason alone.
C30_Witness ==
  \E c \in Chats :
    /\ In(c) /\ games[c].state = WAITING_FOR_PLAYERS
    /\ Len(games[c].player_keys) = 3
    /\ pairs # <<>>
    /\ games[c].settings.civilian_count = 1
    /\ games[c].settings.undercover_count = 1
    /\ games[c].settings.mr_white_count = 1
    /\ StartRejected(games[c], games[c].creator_id)

\* Character codes ch and dh are the same character, or the two cases of one
\* letter.
SameLetter(ch, dh) ==
  \/ ch = dh
  \/ ch \in 65..90 /\ dh = ch + 32
  \/ dh \in 65..90 /\ ch = dh + 32
\* The texts of at most two characters over M, m, E, e, o and the blank, and
\* the texts that are sent as guesses.
ProbeChars == {77, 109, 69, 101, 111, 32}
ProbeTexts ==
  {<<>>} \cup {<<ch>> : ch \in ProbeChars}
         \cup {<<ch, dh>> : ch \in ProbeChars, dh \in ProbeChars} \cup GuessTexts

\* C31: check_mr_white_guess(text) is true iff text equals the aligned word
\* ignoring letter case: the same length, and at each position the same
\* character or the two cases of one letter; the function yields a truth
\* value and no changed session.
C31_GuessIgnoresCase ==
  \A c \in Chats :
    Started(games[c])
    => \A text \in ProbeTexts :
         LET w == games[c].civilian_word
         IN CheckMrWhiteGuess(games[c], text) \in BOOLEAN
            /\ (CheckMrWhiteGuess(games[c], text)
                 <=> /\ Len(text) = Len(w)
                     /\ \A i \in 1..Len(w) : SameLetter(text[i], w[i]))

\* C31 witness: the guess "M", which begins the aligned word "Me", has just
\* been judged wrong: the game goes on or is over without Blank winning.
C31_Witness ==
  /\ ev.op = "guess" /\ ev.arg = <<77>>
  /\ ev.winner # MR_WHITE
  /\ \A c \in Chats : In(c) => games[c].civilian_word = WordMe

\* C32: resolve_votes returns the id of the participant it eliminated, or
\* None when it eliminated nobody: on every vote step that resolves the round
\* and leaves the session registered, a returned id names a participant who
\* was living before and is eliminated after, and without a returned id the
\* eliminated participants are the same as before.
C32_ReturnsEliminated ==
  [][\A c \in Chats :
       ( /\ In(c) /\ games[c].state = VOTING
         /\ ev'.op = "vote" /\ ev'.ret >= 0
         /\ games'[c] # NoGame )
       => /\ ev'.ret # NoneId
             => /\ ev'.ret \in Living(games[c])
                /\ ev'.ret \in Eliminated(games'[c])
          /\ ev'.ret = NoneId => Eliminated(games'[c]) = Eliminated(games[c])]_vars

\* C33: resolve_votes called when the state is not Voting, or in Voting when
\* no living participant has cast a vote, returns None and leaves the game as
\* it is.  Checked on every game a handler can hold (registered, or held by
\* a waiting vote handler after the session was removed) and every outcome
\* of the draw.
C33_NothingToResolve ==
  \A c \in Chats : \A g \in {games[c], suspended.orphan[c]} :
    ( /\ g # NoGame
      /\ \/ g.state # VOTING
         \/ \A p \in Living(g) : ~g.players[p].has_voted )
    => \A pick \in Users \cup {NoneId} : ResolveVotes(g, pick) = Res(g, NoneId, FALSE)

\* C33 witness: a vote handler has just called resolve_votes on a game in
\* MrWhiteGuessing whose votes are all cast, got None, and waits at its
\* reply; nobody but the participant eliminated before is eliminated.
C33_Witness ==
  \E s \in suspended.votes :
    /\ s.at = "tie"
    /\ ev.op = "vote_await" /\ ev.ret = NoneId
    /\ HeldGame(s.chat).state = MR_WHITE_GUESSING
    /\ \A p \in Living(HeldGame(s.chat)) : HeldGame(s.chat).players[p].has_voted
    /\ Cardinality(Eliminated(HeldGame(s.chat))) = 1

\* C34: the engine of src/main.py and the engine of src/models/game.py behave
\* alike wherever the forced two-player endgame has not applied: in every
\* Playing state in which nobody has been eliminated, next_turn of either
\* version leaves the same state, the same current participant, the same
\* flags and eliminations, and returns the same id.
C34_SameEngine ==
  \A c \in Chats :
    (In(c) /\ games[c].state = PLAYING /\ Eliminated(games[c]) = {})
    => /\ NextTurnMain(games[c]).g = NextTurn(games[c]).g
       /\ NextTurnMain(games[c]).ret = NextTurn(games[c]).ret

\* C35: the done command acts for the current participant only.  On every
\* registered session, for every sender and every description: a done
\* command sent while the state is not Playing, or by anyone but the
\* participant at the current turn, leaves the session as it is; a done
\* command that changes the session was sent in Playing by the current
\* participant, who is living, and it records the description (when one was
\* given), marks that participant as spoken, touches no other participant,
\* and either hands the turn to another living participant who has not
\* spoken or opens the vote.
C35_DoneByCurrentOnly ==
  \A c \in Chats : In(c) =>
    \A u \in Users, d \in {NoWord, DescriptionText} :
      LET g == games[c]
          r == DoneTurnCommand(g, u, d)
          h == r.g
      IN /\ (g.state # PLAYING \/ CurrentOf(g) # u) => (h = g /\ ~r.ret)
         /\ (h # g \/ r.ret) =>
              /\ g.state = PLAYING /\ CurrentOf(g) = u /\ u \in Living(g)
              /\ h.players[u] =
                   [g.players[u] EXCEPT
                      !.has_spoken = TRUE,
                      !.description = IF d # NoWord THEN d ELSE @]
              /\ \A q \in DOMAIN g.players \ {u} : h.players[q] = g.players[q]
              /\ \/ h.state = VOTING /\ h.current_turn_idx = g.current_turn_idx
                 \/ /\ h.state = PLAYING
                    /\ CurrentOf(h) \in Living(h) \ {u}
                    /\ ~h.players[CurrentOf(h)].has_spoken

\* C35 witness: the current participant's /done has just recorded a
\* description and passed the turn on, and the game is still in Playing, so
\* a /done of the participant who has just spoken is now one of the
\* commands that change nothing.
C35_Witness ==
  \E c \in Chats :
    /\ In(c) /\ games[c].state = PLAYING
    /\ ev.op = "done"
    /\ ev.ret \in Living(games[c])
    /\ games[c].players[ev.ret].description = DescriptionText
    /\ games[c].players[ev.ret].has_spoken
    /\ CurrentOf(games[c]) # ev.ret
    /\ DoneTurnCommand(games[c], ev.ret, DescriptionText).g = games[c]

\* C36: automatic games of five and of seven are lost to the Aligned.  In
\* such a game no command ever names the Aligned (Civilian) faction as the
\* winner; a vote resolution that eliminates a participant either ends the
\* game (the session is removed by game_over) with Undercover or Mr. White
\* as the winner or, when the eliminated participant is Mr. White, leaves
\* MrWhiteGuessing with that participant's guess registered; and the
\* resolution of that guess ends the game with Undercover or Mr. White as
\* the winner.  So no registered session ever shows a second elimination.
C36_AlignedNeverWins ==
  [][\A c \in Chats :
       /\ ev'.winner # CIVILIAN
       /\ (In(c) /\ ev'.op = "vote" /\ ev'.ret \in LargeUsers)
          => \/ games'[c] = NoGame /\ ev'.winner \in {UNDERCOVER, MR_WHITE}
             \/ /\ games'[c] # NoGame
                /\ games'[c].state = MR_WHITE_GUESSING
                /\ Eliminated(games'[c]) = {ev'.ret}
                /\ games'[c].players[ev'.ret].role = MR_WHITE
                /\ active_mr_white_guesses'[ev'.ret] = c
       /\ (In(c) /\ ev'.op = "guess")
          => games'[c] = NoGame /\ ev'.winner \in {UNDERCOVER, MR_WHITE}
       /\ games'[c] # NoGame => Cardinality(Eliminated(games'[c])) <= 1]_vars

\* C36 witness: in a game of seven the first resolution has just eliminated
\* a Mr. White, whose guess is pending, and whatever is guessed ends the game
\* with a winner other than the Civilians.
C36_Witness ==
  \E c \in Chats :
    /\ In(c) /\ Len(games[c].player_keys) = 7
    /\ games[c].settings.undercover_count = 2 /\ games[c].settings.mr_white_count = 2
    /\ games[c].state = MR_WHITE_GUESSING
    /\ ev.op = "vote" /\ ev.ret \in Eliminated(games[c])
    /\ active_mr_white_guesses[ev.ret] = c
    /\ \A text \in GuessTexts :
         /\ GuessResolve(games[c], Strip(text)).g = NoGame
         /\ GuessResolve(games[c], Strip(text)).ev.winner \in {UNDERCOVER, MR_WHITE}

\* C37: a pending guess can be submitted.  Whenever a registered session is
\* in MrWhiteGuessing, the registry of guesses holds an entry that maps a
\* Mr. White participant of that session to the session's chat.
C37_GuessRegistered ==
  \A c \in Chats :
    (In(c) /\ games[c].state = MR_WHITE_GUESSING)
    => \E u \in Ids(games[c]) :
         /\ games[c].players[u].role = MR_WHITE
         /\ active_mr_white_guesses[u] = c

\* C38: the turn points at a participant who may speak.  Whenever a
\* registered session is in Playing, current_turn_idx is an index of
\* turn_order and the participant it names is living and has not spoken in
\* the current round.
C38_CurrentMaySpeak ==
  \A c \in Chats :
    (In(c) /\ games[c].state = PLAYING)
    => /\ 0 <= games[c].current_turn_idx
       /\ games[c].current_turn_idx < Len(games[c].turn_order)
       /\ CurrentOf(games[c]) \in Living(games[c])
       /\ ~games[c].players[CurrentOf(games[c])].has_spoken

\* C39: eliminations are permanent and come one at a time.  From start_game
\* on, no command clears the eliminated flag of a participant of a session
\* that stays registered, and no command sets the flag of more than one
\* participant (each vote command calls resolve_votes at most once); and
\* resolve_votes called on a session in which a vote is cast, at any point of
\* the vote and whatever the draw, clears no flag and sets at most one.
C39_EliminatedForGood ==
  [][\A c \in Chats :
       /\ (Started(games[c]) /\ games'[c] # NoGame)
          => /\ Eliminated(games[c]) \subseteq Eliminated(games'[c])
             /\ Cardinality(Eliminated(games'[c]) \ Eliminated(games[c])) <= 1
             /\ (Eliminated(games'[c]) # Eliminated(games[c]) => ev'.op = "vote")
       /\ (In(c) /\ games[c].state = VOTING /\ ev'.op = "vote")
          => \A pick \in MaxVotePlayers(games[c]) :
               LET h == ResolveVotes(games[c], pick).g
               IN /\ Eliminated(games[c]) \subseteq Eliminated(h)
                  /\ Cardinality(Eliminated(h) \ Eliminated(games[c])) <= 1]_vars

\* C39 witness: a second resolution has eliminated a second participant; the
\* first one is still eliminated.
C39_Witness ==
  \E c \in Chats :
    /\ In(c) /\ ev.op = "vote" /\ ev.ret \in Eliminated(games[c])
    /\ Cardinality(Eliminated(games[c])) = 2

\* The vote flags of game g agree: has_voted is set exactly when vote_target
\* is, a vote_target is a participant of g, and in Playing nobody has voted.
VoteFlagsAgree(g) ==
  g # NoGame =>
    /\ \A p \in Ids(g) :
         /\ g.players[p].has_voted <=> g.players[p].vote_target # NoneId
         /\ g.players[p].vote_target # NoneId => g.players[p].vote_target \in Ids(g)
    /\ g.state = PLAYING => \A p \in Ids(g) : ~g.players[p].has_voted

\* C40: the vote flags are consistent.  In every state has_voted is set
\* exactly when vote_target is, every vote_target names a participant of the
\* same session, and in Playing nobody has voted; and whenever a command
\* sets a participant's vote_target, the target was not eliminated before
\* the command.
C40_VoteFlagsConsistent ==
  [][\A c \in Chats :
       /\ VoteFlagsAgree(games[c])
       /\ VoteFlagsAgree(games'[c])
       /\ (In(c) /\ games'[c] # NoGame)
          => \A p \in Ids(games[c]) \cap Ids(games'[c]) :
               ( /\ games'[c].players[p].vote_target # NoneId
                 /\ games'[c].players[p].vote_target # games[c].players[p].vote_target )
               => /\ games'[c].players[p].vote_target \in Living(games[c])
                  /\ ev'.op = "vote"]_vars

\* C40 witness: in the second round, with one participant eliminated, a vote
\* has just been cast for a living participant and others have yet to vote.
C40_Witness ==
  \E c \in Chats :
    /\ In(c) /\ games[c].state = VOTING /\ ev.op = "vote"
    /\ Eliminated(games[c]) # {}
    /\ \E p, q \in Living(games[c]) :
         /\ games[c].players[p].has_voted
         /\ games[c].players[p].vote_target \in Living(games[c])
         /\ ~games[c].players[q].has_voted
====
